---------------------------- MODULE Spec2Model ----------------------------
(***************************************************************************)
(* Alert evaluation and dedup engine of waves-alert-bot: the check runner  *)
(* (runChecksWithDeps and its helpers), the alert engine it calls and the  *)
(* Europe/Madrid hourly scheduler.                                         *)
(*                                                                         *)
(* Model time is counted in half hours since the Unix epoch, so that one   *)
(* hour (the code's 60 * 60 * 1000 ms) is HOUR = 2 units and tide events   *)
(* may fall between two hourly samples.  The scheduler, which works at     *)
(* millisecond resolution, keeps milliseconds.                             *)
(* An optional value (T | null | undefined, or a NaN timestamp) is a       *)
(* sequence of length at most one: << >> is the missing value.             *)
(***************************************************************************)
EXTENDS Integers, Sequences, FiniteSets, TLC

VARIABLES
    call,             \* the last application of a pure function: inputs and result
    alerts,           \* deps.alerts: the rule list handed to every run
    env,              \* the collaborators' data: forecasts, daylight, tide events
    lastSentWindows,  \* index.ts lastSentWindows: dedupe key -> last sent window
    lastNotifiedAt,   \* storage: rule id -> lastNotifiedAt
    pc,               \* "idle" between runs, "running" inside runChecksWithDeps
    idx,              \* position of the for-loop over deps.alerts (1-based)
    forecastsBySpot,  \* the run-scoped memo of runChecksWithDeps
    stats,            \* the CheckRunStats of the run in progress (or last returned)
    calls,            \* per rule of the run: how often each collaborator was called
    outcome,          \* per rule of the run: how its evaluation ended
    clock,            \* number of runs started so far; also the value of now()
    prevRun,          \* what the previous run saw and did (for rerun comparisons)
    runStart,         \* lastSentWindows as the run in progress found it
    sentLog,          \* per dedupe key: the windows sent so far, oldest first
    caches,           \* bot-helpers sunsetCache and tideDayCache: the keys they hold
    lookups,          \* the lookups that missed and whose fetch has not returned
    timers,           \* the timeouts setTimeout has created, oldest first
    timer,            \* scheduler.ts timer: index into timers, 0 for null
    stopped,          \* scheduler.ts stopped
    runs,             \* per origin: the calls of run / runChecks not yet settled
    tally,            \* counters: run() calls, stop() calls, commands, escapes
    wall,             \* the wall clock, in ms from 00:00 UTC of the scheduler's day
    begun,            \* the instants at which the scheduler called run()
    tasks,            \* per run of runChecks in the process: where it stands
    notificationLog,  \* the entries of data/notifications-log.json
    recorded          \* the records made in the notification log, oldest first

vars == << call, alerts, env, lastSentWindows, lastNotifiedAt, pc, idx,
           forecastsBySpot, stats, calls, outcome, clock, prevRun, runStart,
           sentLog, caches, lookups,
           timers, timer, stopped, runs, tally, wall, begun, tasks,
           notificationLog, recorded >>

logVars == << notificationLog, recorded >>

timerVars == << timers, timer, stopped, runs, tally, wall, begun, tasks,
               notificationLog, recorded >>

runnerVars == << alerts, env, lastSentWindows, lastNotifiedAt, pc, idx,
                 forecastsBySpot, stats, calls, outcome, clock, prevRun,
                 runStart, sentLog, caches, lookups >>

-----------------------------------------------------------------------------
(* Units and generic helpers *)

\* 60 * 60 * 1000 ms, in model units of half an hour
HOUR == 2

\* hours in a civil day
DayHours == 24

\* the day of the test fixtures, 2026-02-16, in days since the Unix epoch
FixtureDay == 20500

Min(a, b) == IF a <= b THEN a ELSE b
Max(a, b) == IF a >= b THEN a ELSE b
Abs(x) == IF x < 0 THEN -x ELSE x

RECURSIVE SeqMin(_)
SeqMin(s) == IF Len(s) = 1 THEN s[1] ELSE Min(s[1], SeqMin(Tail(s)))

RECURSIVE SeqMax(_)
SeqMax(s) == IF Len(s) = 1 THEN s[1] ELSE Max(s[1], SeqMax(Tail(s)))

\* Array.prototype.sort with a numeric key: a stable ascending sort, here of
\* the pairs << key, element >>.  InsertByKey puts p after every pair whose key
\* is <= its key.
RECURSIVE InsertByKey(_, _)
InsertByKey(sorted, p) ==
    IF sorted = << >> THEN << p >>
    ELSE IF sorted[1][1] <= p[1]
         THEN << sorted[1] >> \o InsertByKey(Tail(sorted), p)
         ELSE << p >> \o sorted

RECURSIVE SortPairs(_, _)
SortPairs(pairs, n) ==
    IF n = 0 THEN << >>
    ELSE InsertByKey(SortPairs(pairs, n - 1), pairs[n])

SortByKeyNone(s, keys) == s

SortByKey(s, keys) ==
    LET sorted == SortPairs([i \in 1 .. Len(s) |-> << keys[i], s[i] >>], Len(s))
    IN  [i \in 1 .. Len(s) |-> sorted[i][2]]

-----------------------------------------------------------------------------
(* core/time.ts *)

\* An hora the API could send that is no time of day: "24:00".
BadHora == DayHours * HOUR

\* parseUtcDateTime(date, hora): the UTC instant of a civil date (days since the
\* epoch) and an "HH:MM" time of day (half hours since midnight), or null when
\* the time of day is malformed.
ParseUtcDateTime(date, hora) ==
    IF hora \in 0 .. (DayHours * HOUR - 1)
    THEN << date * DayHours * HOUR + hora >>
    ELSE << >>

\* apiDateFromForecastDate(dateRaw): the yyyymmdd of an ISO timestamp, read off
\* its first ten characters: the UTC day of the instant.
ApiDateFromForecastDate(dateMs) == dateMs \div (DayHours * HOUR)

-----------------------------------------------------------------------------
(* core/check-runner.ts: pure helpers *)

\* alert.tidePortId ?? '72'
DefaultPort == "72"

TidePortOf(alert) ==
    IF alert.tidePortId = << >> THEN DefaultPort ELSE alert.tidePortId[1]

\* String(e.tipo || '').toLowerCase().includes(needle)
TipoIncludes(tipo, needle) == tipo = needle

Needle(type) == IF type = "high" THEN "pleamar" ELSE "bajamar"

TideClassByHeightInclusive(height, min, max) ==
    IF max - min <= 0 THEN "mid"
    ELSE IF 3 * (height.num - min * height.den) <= (max - min) * height.den
    THEN "low"
    ELSE IF 3 * (height.num - min * height.den) <= 2 * (max - min) * height.den
    THEN "mid"
    ELSE "high"

\* tideClassByHeight(height, min, max), the height a fraction num / den, den > 0
TideClassByHeight(height, min, max) ==
    LET span == max - min
        \* ratio = (height - min) / span = rnum / rden
        rnum == height.num - min * height.den
        rden == span * height.den
    IN  IF span <= 0 THEN "mid"
        ELSE IF 3 * rnum < rden THEN "low"
        ELSE IF 3 * rnum < 2 * rden THEN "mid"
        ELSE "high"

\* one element of rows: the event with its instant, dropped when the instant
\* is NaN
RowOf(e, at) ==
    IF at = << >> THEN << >> ELSE << [at |-> at[1], altura |-> e.altura] >>

\* events.map(...).filter(...) of estimateTideHeightAt
RECURSIVE ParseableRows(_, _)
ParseableRows(events, i) ==
    IF i > Len(events) THEN << >>
    ELSE RowOf(events[i], ParseUtcDateTime(events[i].date, events[i].hora))
         \o ParseableRows(events, i + 1)

RowKeys(rows) == [i \in 1 .. Len(rows) |-> rows[i].at]

SortRowsNone(rows) == rows

\* rows of estimateTideHeightAt: the parseable events, sorted by instant
SortRows(rows) == SortByKey(rows, RowKeys(rows))

TideRows(events) == SortRows(ParseableRows(events, 1))

RECURSIVE InterpolateFrom(_, _, _)
InterpolateFrom(rows, t, i) ==
    IF i > Len(rows) - 1 THEN << >>
    ELSE LET a == rows[i]
             b == rows[i + 1]
         IN  IF t >= a.at /\ t <= b.at
             THEN \* a.altura + (b.altura - a.altura) * (t - ta) / (tb - ta)
                  << [num |-> a.altura * (b.at - a.at)
                                + (b.altura - a.altura) * (t - a.at),
                      den |-> b.at - a.at] >>
             ELSE InterpolateFrom(rows, t, i + 1)

\* estimateTideHeightAt after rows is built
EstimateFromRows(t, rows) ==
    IF rows = << >> THEN << >>
    ELSE IF t <= rows[1].at THEN << [num |-> rows[1].altura, den |-> 1] >>
    ELSE IF t >= rows[Len(rows)].at
         THEN << [num |-> rows[Len(rows)].altura, den |-> 1] >>
    ELSE InterpolateFrom(rows, t, 1)

\* estimateTideHeightAt(target, events): a fraction, or null
EstimateTideHeightAt(t, events) == EstimateFromRows(t, TideRows(events))

IsNearerAlways(diff, bestDiff) == TRUE

\* diff < bestDiff, bestDiff null for Number.POSITIVE_INFINITY
IsNearer(diff, bestDiff) == bestDiff = << >> \/ diff < bestDiff[1]

\* the loop of findNearestTideTsByType; best is null or the instant found so
\* far, bestDiff is null for Number.POSITIVE_INFINITY
RECURSIVE NearestLoop(_, _, _, _, _, _)
NearestLoop(events, t, needle, i, best, bestDiff) ==
    IF i > Len(events) THEN best
    ELSE LET e == events[i]
             atDate == ParseUtcDateTime(e.date, e.hora)
         IN  IF ~ TipoIncludes(e.tipo, needle)
             THEN NearestLoop(events, t, needle, i + 1, best, bestDiff)
             ELSE IF atDate = << >>
             THEN NearestLoop(events, t, needle, i + 1, best, bestDiff)
             ELSE LET at == atDate[1]
                      diff == Abs(at - t)
                  IN  IF IsNearer(diff, bestDiff)
                      THEN NearestLoop(events, t, needle, i + 1,
                                       << at >>, << diff >>)
                      ELSE NearestLoop(events, t, needle, i + 1, best, bestDiff)

FindNearestTideTsByType(t, events, type) ==
    NearestLoop(events, t, Needle(type), 1, << >>, << >>)

\* one iteration of the loop of findNearestTides (alert-engine.ts) for an
\* event whose instant is at; acc holds low, high, lowDiff and highDiff
NearestTidesStep(acc, event, at, t) ==
    [low |-> IF TipoIncludes(event.tipo, "bajamar")
                /\ IsNearer(Abs(at - t), acc.lowDiff)
             THEN << event >> ELSE acc.low,
     lowDiff |-> IF TipoIncludes(event.tipo, "bajamar")
                    /\ IsNearer(Abs(at - t), acc.lowDiff)
                 THEN << Abs(at - t) >> ELSE acc.lowDiff,
     high |-> IF TipoIncludes(event.tipo, "pleamar")
                 /\ IsNearer(Abs(at - t), acc.highDiff)
              THEN << event >> ELSE acc.high,
     highDiff |-> IF TipoIncludes(event.tipo, "pleamar")
                     /\ IsNearer(Abs(at - t), acc.highDiff)
                  THEN << Abs(at - t) >> ELSE acc.highDiff]

RECURSIVE NearestTidesLoop(_, _, _, _)
NearestTidesLoop(events, t, i, acc) ==
    IF i > Len(events) THEN acc
    ELSE IF ParseUtcDateTime(events[i].date, events[i].hora) = << >>
    THEN NearestTidesLoop(events, t, i + 1, acc)
    ELSE NearestTidesLoop(
             events, t, i + 1,
             NearestTidesStep(
                 acc, events[i],
                 ParseUtcDateTime(events[i].date, events[i].hora)[1], t))

\* findNearestTides(target, events): the nearest low and high tide events
FindNearestTides(t, events) ==
    NearestTidesLoop(events, t, 1,
                     [low |-> << >>, lowDiff |-> << >>,
                      high |-> << >>, highDiff |-> << >>])

\* buildAlertProfileKey(alert): the JSON text of these seven fields
BuildAlertProfileKey(alert) ==
    [waveRanges |-> alert.waveRanges,
     periodRanges |-> alert.periodRanges,
     windRanges |-> alert.windRanges,
     energyMin |-> alert.energyMin,
     energyMax |-> alert.energyMax,
     tidePreference |-> alert.tidePreference,
     tidePortId |-> TidePortOf(alert)]

\* `${alert.chatId}:${alert.spotId}:${buildAlertProfileKey(alert)}`
DedupeKey(alert) == << alert.chatId, alert.spot, BuildAlertProfileKey(alert) >>

ShouldSendWindowNoContainment(last, next) ==
    IF last = << >> THEN TRUE
    ELSE ~ (next.startMs = last[1].startMs /\ next.endMs = last[1].endMs)

\* shouldSendWindow(last, next); last is an optional window
ShouldSendWindow(last, next) ==
    IF last = << >> THEN TRUE
    ELSE LET isEqual == next.startMs = last[1].startMs
                        /\ next.endMs = last[1].endMs
             isContained == next.startMs >= last[1].startMs
                            /\ next.endMs <= last[1].endMs
         IN  IF isEqual THEN FALSE
             ELSE IF isContained THEN FALSE
             ELSE TRUE

-----------------------------------------------------------------------------
(* core/utils.ts *)

\* wind angles are counted in tenths of a degree
FullCircle == 3600

\* the % of JavaScript: the remainder has the sign of the dividend
JsRem(a, b) == IF a >= 0 THEN a % b ELSE -((-a) % b)

\* normalizeAngle(deg): ((deg % 360) + 360) % 360
NormalizeAngle(angle) ==
    JsRem(JsRem(angle, FullCircle) + FullCircle, FullCircle)

RECURSIVE SumSquares(_)
SumSquares(swells) ==
    IF swells = << >> THEN 0
    ELSE swells[1].height * swells[1].height + SumSquares(Tail(swells))

\* totalWaveHeight(f) is the root of the sum of the squared component heights;
\* the model keeps its square
TotalWaveHeightSq(f) == SumSquares(f.validSwells)

RECURSIVE TallestFrom(_, _, _)
TallestFrom(swells, i, best) ==
    IF i > Len(swells) THEN best
    ELSE TallestFrom(swells, i + 1,
                     IF swells[i].height > best.height THEN swells[i] ELSE best)

\* primaryPeriod(f): the period of the tallest component, 0 without components
PrimaryPeriod(f) ==
    IF f.validSwells = << >> THEN 0
    ELSE TallestFrom(f.validSwells, 2, f.validSwells[1]).period

-----------------------------------------------------------------------------
(* core/alert-engine.ts *)

IsInRangeAlways(current, min, max) == TRUE

IsInRange(current, min, max) == current >= min /\ current <= max

\* isInRange(wave, min, max) on the square of a wave height (wave >= 0)
IsInRangeSq(currentSq, min, max) ==
    /\ (min <= 0 \/ currentSq >= min * min)
    /\ max >= 0
    /\ currentSq <= max * max

IsWindInRangeLinear(current, min, max) == current >= min /\ current <= max

IsWindInRange(current, min, max) ==
    IF min <= max THEN current >= min /\ current <= max
    ELSE current >= min \/ current <= max

MatchDetail(alert, f) ==
    LET waveSq == TotalWaveHeightSq(f)
        period == PrimaryPeriod(f)
        energy == f.energy
        windAngle == NormalizeAngle(f.wind.angle)
        inWave ==
            IF Len(alert.waveRanges) > 0
            THEN \E i \in 1 .. Len(alert.waveRanges) :
                    IsInRangeSq(waveSq, alert.waveRanges[i].min,
                                alert.waveRanges[i].max)
            ELSE IsInRangeSq(waveSq, alert.waveMin, alert.waveMax)
        inPeriod ==
            IF Len(alert.periodRanges) > 0
            THEN \E i \in 1 .. Len(alert.periodRanges) :
                    IsInRange(period, alert.periodRanges[i].min,
                              alert.periodRanges[i].max)
            ELSE IsInRange(period, alert.periodMin, alert.periodMax)
        inEnergy == energy >= alert.energyMin /\ energy <= alert.energyMax
        inWind ==
            \/ Len(alert.windRanges) = 0
            \/ \E i \in 1 .. Len(alert.windRanges) :
                  IsWindInRange(windAngle, alert.windRanges[i].min,
                                alert.windRanges[i].max)
    IN  [pass |-> inWave /\ inPeriod /\ inEnergy /\ inWind,
         wave |-> inWave, period |-> inPeriod,
         energy |-> inEnergy, wind |-> inWind]

\* new Date(item.forecast.date).getTime() of a candidate with a parseable date
ItemMs(item) == item.forecast.date[1]

StreakQualifiesStrict(streakLen, minHours) == streakLen > minHours

\* streakLen >= minHours
StreakQualifies(streakLen, minHours) == streakLen >= minHours

\* the for-loop of firstConsecutiveWindow, i counted from 1 (the code's i + 1)
RECURSIVE WindowLoop(_, _, _, _, _)
WindowLoop(sorted, minHours, i, streakStart, streakLen) ==
    IF i > Len(sorted) + 1
    THEN IF minHours <= 1
         THEN << [start |-> sorted[1], end |-> sorted[1], hours |-> 1,
                  items |-> << sorted[1] >>] >>
         ELSE << >>
    ELSE LET prev == sorted[i - 1]
             isConsecutive ==
                 /\ i <= Len(sorted)
                 /\ ItemMs(sorted[i]) - ItemMs(prev) = HOUR
         IN  IF isConsecutive
             THEN WindowLoop(sorted, minHours, i + 1, streakStart, streakLen + 1)
             ELSE IF StreakQualifies(streakLen, minHours)
             THEN << [start |-> sorted[streakStart], end |-> sorted[i - 1],
                      hours |-> streakLen,
                      items |-> SubSeq(sorted, streakStart, i - 1)] >>
             ELSE WindowLoop(sorted, minHours, i + 1, i, 1)

\* (items.sort(...): the caller's array sorted in place)
ItemsSortedInPlace(items) ==
    SortByKey(items, [i \in 1 .. Len(items) |-> ItemMs(items[i])])
\* the caller's array after the call: [...items].sort(...) sorts a copy
ItemsAfterCall(items) == items

\* firstConsecutiveWindow(items, minHours): a window, or null
FirstConsecutiveWindow(items, minHours) ==
    IF items = << >> THEN << >>
    ELSE LET sorted == SortByKey(items,
                                 [i \in 1 .. Len(items) |-> ItemMs(items[i])])
         IN  WindowLoop(sorted, minHours, 2, 1, 1)

-----------------------------------------------------------------------------
(* core/check-runner.ts: buildCandidateMatches *)

\* three hours, the half width of the high / low tide window
TideWindowHours == 3

\* deps.getTideEventsForDate(portId, yyyymmdd) on the collaborator's data:
\* the events on record for the port and day, none when it has no data
TideEventsFor(tides, portId, yyyymmdd) ==
    IF << portId, yyyymmdd >> \in DOMAIN tides
    THEN tides[<< portId, yyyymmdd >>]
    ELSE << >>

Alturas(events) == [i \in 1 .. Len(events) |-> events[i].altura]

NoEstimate == [tideClass |-> << >>, tideHeight |-> << >>]

\* lines 547-553: the class of the interpolated height, null when no event of
\* the day is parseable
ClassifyEstimate(estimated, tideEvents) ==
    IF estimated = << >> THEN NoEstimate
    ELSE [tideClass |-> << TideClassByHeight(estimated[1],
                                             SeqMin(Alturas(tideEvents)),
                                             SeqMax(Alturas(tideEvents))) >>,
          tideHeight |-> estimated]

\* lines 543-554: the interpolated height and its class, both null when the
\* day has no events
TideEstimate(targetMs, tideEvents) ==
    IF Len(tideEvents) = 0 THEN NoEstimate
    ELSE ClassifyEstimate(EstimateTideHeightAt(targetMs, tideEvents), tideEvents)

BeyondTideWindowExclusive(ts, nearestTide) ==
    IF nearestTide = << >> \/ nearestTide = << 0 >> THEN TRUE
    ELSE \/ ts <= nearestTide[1] - TideWindowHours * HOUR
         \/ ts >= nearestTide[1] + TideWindowHours * HOUR

\* lines 533-540: !nearestTide (null, or the instant 0), or the sample more
\* than three hours away from the nearest event
BeyondTideWindow(ts, nearestTide) ==
    IF nearestTide = << >> \/ nearestTide = << 0 >> THEN TRUE
    ELSE \/ ts < nearestTide[1] - TideWindowHours * HOUR
         \/ ts > nearestTide[1] + TideWindowHours * HOUR

\* lines 523-541: is the sample dropped by the high / low tide window?
OutsideTideWindow(alert, ts, tideEvents) ==
    IF alert.tidePreference = << "high" >> \/ alert.tidePreference = << "low" >>
    THEN BeyondTideWindow(ts, FindNearestTideTsByType(
                                  ts, tideEvents, alert.tidePreference[1]))
    ELSE FALSE

NotMidTideNever(alert, tideClass) == FALSE

\* lines 556-561: is the sample dropped by the mid preference?
NotMidTide(alert, tideClass) ==
    IF alert.tidePreference = << "mid" >>
    THEN tideClass = << >> \/ tideClass # alert.tidePreference
    ELSE FALSE

\* lines 556-565: the mid check, then out.push
KeepCandidate(alert, candidate, est, called) ==
    IF NotMidTide(alert, est.tideClass)
    THEN [called EXCEPT !.tide = @ + 1]
    ELSE [called EXCEPT !.out = Append(@, [forecast |-> candidate,
                                           tideClass |-> est.tideClass,
                                           tideHeight |-> est.tideHeight])]

\* lines 523-565: one sample once its tide events are at hand
CandidateStep(alert, candidate, tideEvents, called) ==
    IF OutsideTideWindow(alert, candidate.date[1], tideEvents)
    THEN [called EXCEPT !.tide = @ + 1]
    ELSE KeepCandidate(alert, candidate,
                       TideEstimate(candidate.date[1], tideEvents), called)

\* The for-loop of buildCandidateMatches.  acc holds out, the tide discards
\* added to stats.discardReasons.tide, the getTideEventsForDate calls made and
\* whether one of them threw; failAt is the number of the call that throws,
\* 0 when none does.
RECURSIVE CandidateLoop(_, _, _, _, _, _)
CandidateLoop(alert, matchesFound, tides, failAt, i, acc) ==
    IF i > Len(matchesFound) THEN acc
    ELSE IF matchesFound[i].date = << >>
    THEN CandidateLoop(alert, matchesFound, tides, failAt, i + 1, acc)
    ELSE IF acc.calls + 1 = failAt
    THEN [acc EXCEPT !.calls = @ + 1, !.thrown = TRUE]
    ELSE CandidateLoop(alert, matchesFound, tides, failAt, i + 1,
             CandidateStep(alert, matchesFound[i],
                 TideEventsFor(tides, TidePortOf(alert),
                     ApiDateFromForecastDate(matchesFound[i].date[1])),
                 [acc EXCEPT !.calls = @ + 1]))

BuildCandidateMatches(alert, matchesFound, tides, failAt) ==
    CandidateLoop(alert, matchesFound, tides, failAt, 1,
                  [out |-> << >>, tide |-> 0, calls |-> 0, thrown |-> FALSE])

-----------------------------------------------------------------------------
(* core/check-runner.ts: runChecksWithDeps, one loop iteration at a time *)

\* The collaborator call that throws while one rule is evaluated: the n-th
\* call of the named collaborator made for that rule.  NoFault: none throws.
NoFault == [point |-> "none", n |-> 0]

FailAt(fault, point) == IF fault.point = point THEN fault.n ELSE 0

ZeroCalls ==
    [fetch |-> 0, light |-> 0, tide |-> 0, match |-> 0, getLast |-> 0,
     tideMsg |-> 0, send |-> 0, setLast |-> 0, touch |-> 0, sent |-> 0]

ZeroStats(as) ==
    [totalAlerts |-> Len(as), matched |-> 0, notified |-> 0, errors |-> 0,
     passAll |-> 0,
     spots |-> {as[i].spot : i \in 1 .. Len(as)},
     discardReasons |-> [wave |-> 0, period |-> 0, energy |-> 0, wind |-> 0,
                         tide |-> 0, light |-> 0]]

\* deps.isWithinAlertWindow(alert.spot, forecastDate) on the collaborator's
\* data: the instants outside the daylight window of the spot
IsWithinAlertWindow(e, spot, ts) == ts \notin e.dark

IsSkippedNever(alert) == FALSE

\* line 613: alert.enabled === false
IsSkipped(alert) == alert.enabled = FALSE

\* line 615: forecastsBySpot.get(alert.spotId); undefined when not yet set
\* (a memo that serves whatever it holds for the first spot fetched)
MemoGetAnySpot(memo, spot) ==
    memo[CHOOSE s \in DOMAIN memo :
            \A t \in DOMAIN memo : memo[s] # << >> \/ memo[t] = << >>]
MemoGet(memo, spot) == memo[spot]

\* the catch block, lines 729-732
Fail(ctx) == [ctx EXCEPT !.st.errors = @ + 1, !.outcome = "error"]

\* a continue, or the end of the try block
Done(ctx, how) == [ctx EXCEPT !.outcome = how]

Missed(ok) == IF ok THEN 0 ELSE 1

\* lines 633-643: the sample is kept, or the ranges it misses are counted
CountMatch(f, detail, called) ==
    IF detail.pass
    THEN [called EXCEPT !.found = Append(@, f), !.st.passAll = @ + 1]
    ELSE [called EXCEPT
             !.st.discardReasons.wave = @ + Missed(detail.wave),
             !.st.discardReasons.period = @ + Missed(detail.period),
             !.st.discardReasons.energy = @ + Missed(detail.energy),
             !.st.discardReasons.wind = @ + Missed(detail.wind)]

\* (the thresholds tested, and counted, for a sample in the dark as well)
FilterStepTestsDark(alert, f, e, called) ==
    IF ~ IsWithinAlertWindow(e, alert.spot, f.date[1])
    THEN CountMatch(f, MatchDetail(alert, f),
                    [called EXCEPT !.st.discardReasons.light = @ + 1])
    ELSE CountMatch(f, MatchDetail(alert, f), called)
\* lines 627-643: one sample once isWithinAlertWindow has returned
FilterStep(alert, f, e, called) ==
    IF ~ IsWithinAlertWindow(e, alert.spot, f.date[1])
    THEN [called EXCEPT !.st.discardReasons.light = @ + 1]
    ELSE CountMatch(f, MatchDetail(alert, f), called)

\* (a sample without a date counted as discarded for the light)
SkipUnparseableCounted(acc) == [acc EXCEPT !.st.discardReasons.light = @ + 1]
\* line 625: the continue for a sample whose date is not a date
SkipUnparseable(acc) == acc

\* The for-loop of lines 623-644 over the fetched forecasts.  acc holds
\* matchesFound, the statistics, the isWithinAlertWindow calls made and
\* whether one threw.
RECURSIVE FilterLoop(_, _, _, _, _, _)
FilterLoop(alert, forecasts, e, failAt, i, acc) ==
    IF i > Len(forecasts) THEN acc
    ELSE IF forecasts[i].date = << >>
    THEN FilterLoop(alert, forecasts, e, failAt, i + 1, SkipUnparseable(acc))
    ELSE IF acc.calls + 1 = failAt
    THEN [acc EXCEPT !.calls = @ + 1, !.thrown = TRUE]
    ELSE FilterLoop(alert, forecasts, e, failAt, i + 1,
                    FilterStep(alert, forecasts[i], e,
                               [acc EXCEPT !.calls = @ + 1]))

\* Lines 684-728, from recordNotificationMatch to stats.notified++, for the
\* window found.  Every hook and collaborator on the way may throw; each step
\* below takes the context c in which its call has been counted, and applies
\* the call's effect when the call returns.

\* (notified incremented before recordNotificationSent is called)
RecordNotificationSentCountedFirst(alert, c, newWindow, now, fault) ==
    IF fault.point = "sent" THEN Fail([c EXCEPT !.st.notified = @ + 1])
    ELSE Done([c EXCEPT !.st.notified = @ + 1], "sent")
\* line 719 recordNotificationSent, line 728 stats.notified++
RecordNotificationSent(alert, c, newWindow, now, fault) ==
    IF fault.point = "sent" THEN Fail(c)
    ELSE Done([c EXCEPT !.st.notified = @ + 1], "sent")

\* line 718 touchAlertNotified
TouchAlertNotified(alert, c, newWindow, now, fault) ==
    IF fault.point = "touch" THEN Fail(c)
    ELSE RecordNotificationSent(alert,
             [c EXCEPT !.notified[alert.id] = << now >>, !.calls.sent = 1],
             newWindow, now, fault)

SetLastWindowDropped(alert, c, newWindow, now, fault) ==
    IF fault.point = "setLast" THEN Fail(c)
    ELSE TouchAlertNotified(alert, [c EXCEPT !.calls.touch = 1],
                            newWindow, now, fault)

\* line 716 setLastWindow
SetLastWindow(alert, c, newWindow, now, fault) ==
    IF fault.point = "setLast" THEN Fail(c)
    ELSE TouchAlertNotified(alert,
             [c EXCEPT !.store[DedupeKey(alert)] = << newWindow >>,
                       !.calls.touch = 1],
             newWindow, now, fault)

SendMessageWriteFirst(alert, c, newWindow, now, fault) ==
    IF fault.point = "send"
    THEN Fail([c EXCEPT !.store[DedupeKey(alert)] = << newWindow >>,
                        !.notified[alert.id] = << now >>])
    ELSE SetLastWindow(alert,
             [c EXCEPT !.delivered = TRUE, !.calls.setLast = 1],
             newWindow, now, fault)

\* line 715 sendMessage
SendMessage(alert, c, newWindow, now, fault) ==
    IF fault.point = "send" THEN Fail(c)
    ELSE SetLastWindow(alert,
             [c EXCEPT !.delivered = TRUE, !.calls.setLast = 1],
             newWindow, now, fault)

\* lines 699-713: the second getTideEventsForDate and the message text
BuildMessage(alert, c, newWindow, now, fault) ==
    IF fault.point = "tideMsg" THEN Fail(c)
    ELSE SendMessage(alert, [c EXCEPT !.calls.send = 1], newWindow, now, fault)

\* lines 695-697 getLastWindow and shouldSendWindow
GetLastWindow(alert, c, newWindow, now, fault) ==
    IF fault.point = "getLast" THEN Fail(c)
    ELSE IF ~ ShouldSendWindow(c.store[DedupeKey(alert)], newWindow)
    THEN Done(c, "suppressed")
    ELSE BuildMessage(alert, [c EXCEPT !.calls.tideMsg = 1],
                      newWindow, now, fault)

\* (the last-sent window read before the match is recorded)
RecordNotificationMatchLate(alert, c, newWindow, now, fault) ==
    IF fault.point = "getLast"
    THEN Fail([c EXCEPT !.calls.match = 0, !.calls.getLast = 1])
    ELSE IF fault.point = "match" THEN Fail([c EXCEPT !.calls.getLast = 1])
    ELSE GetLastWindow(alert, [c EXCEPT !.calls.getLast = 1],
                       newWindow, now, fault)
\* line 684 recordNotificationMatch
RecordNotificationMatch(alert, c, newWindow, now, fault) ==
    IF fault.point = "match" THEN Fail(c)
    ELSE GetLastWindow(alert, [c EXCEPT !.calls.getLast = 1],
                       newWindow, now, fault)

Notify(alert, ctx, newWindow, now, fault) ==
    RecordNotificationMatch(alert,
        [ctx EXCEPT !.window = << newWindow >>, !.calls.match = 1],
        newWindow, now, fault)

\* (a window that ends at its last sample)
NewWindowClosed(window) ==
    [startMs |-> ItemMs(window.start), endMs |-> ItemMs(window.end)]
\* lines 663-668: newWindow of the window found
NewWindowOf(window) ==
    [startMs |-> ItemMs(window.start), endMs |-> ItemMs(window.end) + HOUR]

\* lines 664-668: firstConsecutiveWindow has returned
AfterWindow(alert, c, window, now, fault) ==
    IF window = << >> THEN Done(c, "nowindow")
    ELSE Notify(alert, c, NewWindowOf(window[1]), now, fault)

\* lines 651-664: buildCandidateMatches has returned bc, or thrown
AfterCandidates(alert, c, bc, minConsecutiveHours, now, fault) ==
    IF bc.thrown THEN Fail(c)
    ELSE IF Len(bc.out) = 0 THEN Done(c, "nocandidate")
    ELSE AfterWindow(alert, c,
             FirstConsecutiveWindow(bc.out, Max(1, minConsecutiveHours)),
             now, fault)

\* the statistics and call counts after buildCandidateMatches
WithCandidates(m, bc) ==
    [m EXCEPT !.st.discardReasons.tide = @ + bc.tide, !.calls.tide = bc.calls]

\* lines 645-651: stats.matched++ and buildCandidateMatches
CountCandidates(alert, m, bc, minConsecutiveHours, now, fault) ==
    AfterCandidates(alert, WithCandidates(m, bc), bc, minConsecutiveHours,
                    now, fault)

\* (matched left alone)
AfterFilterUncounted(alert, e, ctx, matchesFound, minConsecutiveHours, now, fault) ==
    IF Len(matchesFound) = 0 THEN Done(ctx, "nomatch")
    ELSE CountCandidates(alert, ctx,
             BuildCandidateMatches(alert, matchesFound, e.tides,
                                   FailAt(fault, "tide")),
             minConsecutiveHours, now, fault)
\* Lines 645-668: from the matches found to the window, then Notify
AfterFilter(alert, e, ctx, matchesFound, minConsecutiveHours, now, fault) ==
    IF Len(matchesFound) = 0 THEN Done(ctx, "nomatch")
    ELSE CountCandidates(alert, [ctx EXCEPT !.st.matched = @ + 1],
             BuildCandidateMatches(alert, matchesFound, e.tides,
                                   FailAt(fault, "tide")),
             minConsecutiveHours, now, fault)

\* the statistics and call counts after the filter loop
WithFilter(c, fl) == [c EXCEPT !.st = fl.st, !.calls.light = fl.calls]

\* lines 623-645: the filter loop has returned fl, or thrown
AfterLight(alert, e, c, fl, minConsecutiveHours, now, fault) ==
    IF fl.thrown THEN Fail(WithFilter(c, fl))
    ELSE AfterFilter(alert, e, WithFilter(c, fl), fl.found,
                     minConsecutiveHours, now, fault)

FilterStart(c) == [found |-> << >>, st |-> c.st, calls |-> 0, thrown |-> FALSE]

\* lines 620-645: the forecasts of the spot are at hand
WithForecasts(alert, e, c, forecasts, minConsecutiveHours, now, fault) ==
    IF Len(forecasts) = 0 THEN Done(c, "empty")
    ELSE AfterLight(alert, e, c,
             FilterLoop(alert, forecasts, e, FailAt(fault, "light"), 1,
                        FilterStart(c)),
             minConsecutiveHours, now, fault)

\* lines 615-619: the memo is read, and filled by fetchForecasts on a miss
FetchOrReuse(alert, e, ctx, cached, minConsecutiveHours, now, fault) ==
    IF cached = << >>
    THEN IF fault.point = "fetch" THEN Fail([ctx EXCEPT !.calls.fetch = 1])
         ELSE WithForecasts(alert, e,
                  [ctx EXCEPT !.calls.fetch = 1,
                              !.memo[alert.spot] = << e.fc[alert.spot] >>],
                  e.fc[alert.spot], minConsecutiveHours, now, fault)
    ELSE WithForecasts(alert, e, ctx, cached[1], minConsecutiveHours, now, fault)

\* the context of one loop iteration, nothing called yet
FreshCtx(ctx0) ==
    [ctx0 EXCEPT !.calls = ZeroCalls, !.window = << >>,
                 !.delivered = FALSE, !.outcome = "none"]

\* The body of the for-loop over deps.alerts (lines 612-732) for one rule.
\* ctx holds the memo, the statistics, the two stores; the result adds the
\* calls made, the window found, whether sendMessage returned, and the outcome.
EvalAlert(alert, e, ctx0, minConsecutiveHours, now, fault) ==
    IF IsSkipped(alert) THEN Done(FreshCtx(ctx0), "disabled")
    ELSE FetchOrReuse(alert, e, FreshCtx(ctx0),
                      MemoGet(ctx0.memo, alert.spot),
                      minConsecutiveHours, now, fault)

-----------------------------------------------------------------------------
(* The inputs of the runner: rules, forecasts, daylight, tide events *)

\* bounds of the runner's state space
MaxAlerts == 2
MaxRuns == 2
MaxSlots == 2
MaxRerunSlots == 3
MaxReruns == 3

\* index.ts: Number(process.env.MIN_CONSECUTIVE_HOURS ?? 2)
MinConsecutiveHours == 2

Spots == {"sopelana", "mundaka"}

\* mkAlert of the runner's tests: heights in decimetres, angles in tenths of
\* a degree.  spot stands for the rule's spot id and its spot name alike
\* (alert.spotId keys the memo and the dedupe key, alert.spot is handed to
\* isWithinAlertWindow): a spot has one id and one name.
MkAlert(id, chatId, spot, enabled, tidePreference) ==
    [id |-> id, chatId |-> chatId, spot |-> spot, enabled |-> enabled,
     waveMin |-> 0, waveMax |-> 100,
     energyMin |-> 800, energyMax |-> 2000,
     periodMin |-> 9, periodMax |-> 14,
     waveRanges |-> << [min |-> 12, max |-> 22] >>,
     periodRanges |-> << [min |-> 10, max |-> 13] >>,
     windRanges |-> << [min |-> 225, max |-> 675] >>,
     tidePortId |-> << "72" >>,
     tidePreference |-> tidePreference]

\* mkForecast of the runner's tests
MkForecast(date, energy) ==
    [date |-> date, energy |-> energy,
     wind |-> [speed |-> 12, angle |-> 450],
     validSwells |-> << [angle |-> 300, height |-> 16, period |-> 11] >>]

\* the hourly instants of the forecasts: 09:00, 10:00, ... of the fixture day
SlotMs(k) == FixtureDay * DayHours * HOUR + (8 + k) * HOUR

GoodEnergy == 1200
LowEnergy == 500

\* every series with, per slot, no sample, a matching one or one of low energy
RECURSIVE SlotSeries(_, _)
SlotSeries(k, n) ==
    IF k > n THEN { << >> }
    ELSE LET rest == SlotSeries(k + 1, n)
         IN  rest
             \cup { << MkForecast(<< SlotMs(k) >>, GoodEnergy) >> \o r : r \in rest }
             \cup { << MkForecast(<< SlotMs(k) >>, LowEnergy) >> \o r : r \in rest }

Reverse(s) == [i \in 1 .. Len(s) |-> s[Len(s) + 1 - i]]

RECURSIVE AllGood(_, _)
AllGood(k, n) ==
    IF k > n THEN << >>
    ELSE << MkForecast(<< SlotMs(k) >>, GoodEnergy) >> \o AllGood(k + 1, n)

\* the slot series, the full series newest first, and the full series after a
\* sample whose date does not parse
SeriesSet(n) ==
    SlotSeries(1, n)
    \cup { Reverse(AllGood(1, n)) }
    \cup { << MkForecast(<< >>, GoodEnergy) >> \o AllGood(1, n) }

\* mkTides of the tests: low 07:00, high 12:30, low 19:00, with the heights
\* in decimetres
MkTides(day) ==
    << [date |-> day, hora |-> 14, altura |-> 8, tipo |-> "bajamar"],
       [date |-> day, hora |-> 25, altura |-> 31, tipo |-> "pleamar"],
       [date |-> day, hora |-> 38, altura |-> 7, tipo |-> "bajamar"] >>

FixtureTides == [k \in { << "72", FixtureDay >> } |-> MkTides(FixtureDay)]

AlertPool ==
    { MkAlert("a1", 123, "sopelana", TRUE, << "any" >>),
      MkAlert("a2", 456, "sopelana", TRUE, << "any" >>),
      MkAlert("a3", 123, "mundaka", TRUE, << "any" >>),
      MkAlert("a4", 123, "sopelana", FALSE, << "any" >>),
      MkAlert("a6", 123, "sopelana", TRUE, << "any" >>),
      MkAlert("a7", 123, "sopelana", TRUE, << "high" >>) }

\* listAllAlerts(): rule lists without a repeated id
RECURSIVE AlertLists(_, _)
AlertLists(pool, n) ==
    IF n = 0 THEN { << >> }
    ELSE LET shorter == AlertLists(pool, n - 1)
         IN  shorter
             \cup { Append(l, a) : l \in { x \in shorter : Len(x) = n - 1 },
                                   a \in pool }

DistinctIds(l) ==
    \A i, j \in 1 .. Len(l) : i # j => l[i].id # l[j].id

RunnerAlertLists ==
    { l \in AlertLists(AlertPool, MaxAlerts) : Len(l) >= 1 /\ DistinctIds(l) }

\* forecasts per spot, the instants in the dark, the tide events on record
EnvSet ==
    { [fc |-> [s \in Spots |-> IF s = "sopelana" THEN a ELSE AllGood(1, MaxSlots)],
       dark |-> {}, tides |-> FixtureTides] :
        a \in { << >>, AllGood(1, MaxSlots),
                << MkForecast(<< SlotMs(1) >>, LowEnergy) >> } }
    \cup { [fc |-> [s \in Spots |-> AllGood(1, MaxSlots)],
            dark |-> { SlotMs(1) }, tides |-> FixtureTides],
           [fc |-> [s \in Spots |->
                       << MkForecast(<< SlotMs(1) >>, LowEnergy) >>
                       \o AllGood(2, MaxSlots)],
            dark |-> { SlotMs(1) }, tides |-> FixtureTides] }

RerunAlertLists ==
    { << MkAlert("a1", 123, "sopelana", TRUE, << "any" >>) >>,
      << MkAlert("a1", 123, "sopelana", TRUE, << "any" >>),
         MkAlert("a6", 123, "sopelana", TRUE, << "any" >>) >>,
      << MkAlert("a1", 123, "sopelana", TRUE, << "any" >>),
         MkAlert("a2", 456, "sopelana", TRUE, << "any" >>) >>,
      << MkAlert("a5", 123, "sopelana", TRUE, << "low" >>) >> }

RerunEnvSet ==
    { [fc |-> [s \in Spots |-> IF s = "sopelana" THEN a ELSE << >>],
       dark |-> {}, tides |-> FixtureTides] :
        a \in SeriesSet(MaxRerunSlots) }

\* the collaborators and hooks of CheckRunnerDeps that may throw
FaultPoints ==
    {"fetch", "light", "tide", "match", "getLast", "tideMsg", "send",
     "setLast", "touch", "sent"}

\* A run sees at most MaxFaults throws: the n-th call of a collaborator
\* made for the rule.
MaxFaults == 1

FaultsOf(points, errors) ==
    { NoFault }
    \cup (IF errors < MaxFaults
          THEN { f \in { [point |-> p, n |-> k] :
                             p \in points, k \in 1 .. MaxSlots } :
                   f.n = 1 \/ f.point \in {"light", "tide"} }
          ELSE { })

-----------------------------------------------------------------------------
(* The runner as a state machine *)

KeysOf(as) == { DedupeKey(as[i]) : i \in 1 .. Len(as) }
IdsOf(as) == { as[i].id : i \in 1 .. Len(as) }

NoCall == [fn |-> "none"]

\* before the first run the collaborators have served nothing
NoData == [fc |-> [s \in Spots |-> << >>], dark |-> {}, tides |-> FixtureTides]

InitRunner(lists) ==
    /\ alerts \in lists
    /\ env = NoData
    /\ lastSentWindows = [k \in KeysOf(alerts) |-> << >>]
    /\ lastNotifiedAt = [i \in IdsOf(alerts) |-> << >>]
    /\ pc = "idle"
    /\ idx = 0
    /\ forecastsBySpot = [s \in Spots |-> << >>]
    /\ stats = ZeroStats(alerts)
    /\ calls = [last |-> ZeroCalls, run |-> ZeroCalls,
                fetches |-> [s \in Spots |-> 0], rules |-> 0, threw |-> {}]
    /\ outcome = [last |-> "none", window |-> << >>, delivered |-> FALSE,
                  fault |-> NoFault]
    /\ clock = 0
    /\ prevRun = << >>
    /\ runStart = [k \in KeysOf(alerts) |-> << >>]
    /\ sentLog = [k \in KeysOf(alerts) |-> << >>]
    /\ caches = [c \in {"sunsetCache", "tideDayCache"} |-> {}]
    /\ lookups = << >>

\* startHourlySchedulerAtMinute has not been called and nothing runs
NoScheduler ==
    /\ timers = << >>
    /\ timer = 0
    /\ stopped = FALSE
    /\ runs = [startup |-> 0, scheduler |-> 0, runnow |-> 0]
    /\ tally = [started |-> 0, stops |-> 0, commands |-> 0, escaped |-> 0]
    /\ wall = 0
    /\ begun = << >>
    /\ tasks = << >>
    /\ notificationLog = << >>
    /\ recorded = << >>

Init == call = NoCall /\ InitRunner(RunnerAlertLists) /\ NoScheduler

InitRerun == call = NoCall /\ InitRunner(RerunAlertLists) /\ NoScheduler

\* runChecksWithDeps is entered (lines 591-609); e is the data the
\* collaborators serve during this run.  With keep, prevRun records what the
\* run before did (threw: the rules and windows for which sendMessage threw),
\* whether this run sees the same data, and whether every run so far ended
\* without an error (clean).
StartRun(maxRuns, envs, keep) ==
    /\ pc = "idle"
    /\ clock < maxRuns
    /\ \E e \in envs :
          /\ env' = e
          /\ prevRun' = IF keep /\ clock > 0
                        THEN << [same |-> e = env, calls |-> calls.run,
                                 threw |-> calls.threw,
                                 errors |-> stats.errors,
                                 clean |-> stats.errors = 0
                                           /\ (prevRun = << >>
                                               \/ prevRun[1].clean)] >>
                        ELSE << >>
    /\ runStart' = lastSentWindows
    /\ pc' = "running"
    /\ idx' = 1
    /\ clock' = clock + 1
    /\ forecastsBySpot' = [s \in Spots |-> << >>]
    /\ stats' = ZeroStats(alerts)
    /\ calls' = [last |-> ZeroCalls, run |-> ZeroCalls,
                 fetches |-> [s \in Spots |-> 0], rules |-> 0, threw |-> {}]
    /\ outcome' = [last |-> "none", window |-> << >>, delivered |-> FALSE,
                   fault |-> NoFault]
    /\ UNCHANGED << call, alerts, lastSentWindows, lastNotifiedAt, sentLog,
                    caches, lookups >>
    /\ UNCHANGED timerVars

AddCalls(a, b) == [f \in DOMAIN a |-> a[f] + b[f]]

NextIndexAbort(i, n, how) == IF how = "error" THEN n + 1 ELSE i + 1

\* the for-loop goes on with the next rule, also after the catch block
NextIndex(i, n, how) == i + 1

\* the context a loop iteration starts from
Ctx ==
    [memo |-> forecastsBySpot, st |-> stats, store |-> lastSentWindows,
     notified |-> lastNotifiedAt, calls |-> ZeroCalls, window |-> << >>,
     delivered |-> FALSE, outcome |-> "none"]

\* a fault is one the evaluation ran into: the call that throws was made
Thrown(fault, r) == fault = NoFault \/ r.outcome = "error"

\* the state after the loop iteration for alert that ended as r
Commit(alert, fault, r) ==
    /\ forecastsBySpot' = r.memo
    /\ stats' = r.st
    /\ lastSentWindows' = r.store
    /\ lastNotifiedAt' = r.notified
    /\ calls' = [last |-> r.calls,
                 run |-> AddCalls(calls.run, r.calls),
                 fetches |-> [calls.fetches EXCEPT
                                ![alert.spot] = @ + r.calls.fetch],
                 rules |-> calls.rules + 1,
                 threw |-> IF fault.point = "send"
                           THEN calls.threw \cup { << alert.id, r.window[1] >> }
                           ELSE calls.threw]
    /\ outcome' = [last |-> r.outcome, window |-> r.window,
                   delivered |-> r.delivered, fault |-> fault]
    /\ sentLog' = IF r.delivered
                  THEN [sentLog EXCEPT
                           ![DedupeKey(alert)] = Append(@, r.window[1])]
                  ELSE sentLog
    /\ idx' = NextIndex(idx, Len(alerts), r.outcome)

\* one iteration of the for-loop over deps.alerts; points are the calls that
\* may throw
RunRule(points) ==
    /\ pc = "running"
    /\ idx <= Len(alerts)
    /\ \E fault \in FaultsOf(points, stats.errors) :
          /\ Thrown(fault, EvalAlert(alerts[idx], env, Ctx, MinConsecutiveHours,
                                     clock, fault))
          /\ Commit(alerts[idx], fault,
                    EvalAlert(alerts[idx], env, Ctx, MinConsecutiveHours,
                              clock, fault))
    /\ UNCHANGED << call, alerts, env, pc, clock, prevRun, runStart, caches,
                    lookups >>
    /\ UNCHANGED timerVars

\* runChecksWithDeps returns its statistics: line 735
FinishRun ==
    /\ pc = "running"
    /\ idx > Len(alerts)
    /\ pc' = "idle"
    /\ UNCHANGED << call, alerts, env, lastSentWindows, lastNotifiedAt, idx,
                    forecastsBySpot, stats, calls, outcome, clock, prevRun,
                    runStart, sentLog, caches, lookups >>
    /\ UNCHANGED timerVars

Next ==
    \/ StartRun(MaxRuns, EnvSet, FALSE)
    \/ RunRule(FaultPoints)
    \/ FinishRun

Spec == Init /\ [][Next]_vars

NextRerun ==
    \/ StartRun(MaxReruns, RerunEnvSet, TRUE)
    \/ RunRule({"send"})
    \/ FinishRun

SpecRerun == InitRerun /\ [][NextRerun]_vars

-----------------------------------------------------------------------------
(* Properties of the runner *)

IsContainedIn(next, last) ==
    next.startMs >= last.startMs /\ next.endMs <= last.endMs

IsDisjointFrom(next, last) ==
    next.endMs < last.startMs \/ next.startMs > last.endMs

\* the rule the last RunRule step evaluated
LastAlert == alerts[idx - 1]

Evaluated == pc = "running" /\ idx > 1 /\ idx <= Len(alerts) + 1

\* C2: with the store wired and sends that succeed, a run that follows a run
\* over the same rules and the same forecasts records the same matches again
\* (recordNotificationMatch once per rule with a window, in each run) but calls
\* neither sendMessage nor recordNotificationSent: over the two runs of one
\* rule with a window, the message is sent exactly once.
C2_RerunSendsNothing ==
    (/\ pc = "idle"
     /\ prevRun # << >>
     /\ prevRun[1].same
     /\ prevRun[1].errors = 0
     /\ stats.errors = 0)
    => /\ calls.run.match = prevRun[1].calls.match
       /\ calls.run.send = 0
       /\ calls.run.sent = 0
       /\ (clock = 2 /\ Len(alerts) = 1 /\ prevRun[1].calls.match = 1)
          => /\ calls.run.match = 1
             /\ prevRun[1].calls.send + calls.run.send = 1
             /\ prevRun[1].calls.sent + calls.run.sent = 1

\* the second of two identical runs found the window again and sent nothing
C2_Witness ==
    /\ pc = "idle"
    /\ clock = 2
    /\ prevRun # << >>
    /\ prevRun[1].same
    /\ prevRun[1].calls.send = 1
    /\ prevRun[1].calls.sent = 1
    /\ stats.errors = 0
    /\ calls.run.match = 1
    /\ calls.run.send = 0

\* every run so far ended without a throw
AllClean == stats.errors = 0 /\ (prevRun = << >> \/ prevRun[1].clean)

\* C3 as stated: with every send succeeding, no window (startMs, endMs) is
\* notified twice for one dedupe key, whatever was notified in between.
C3_NeverNotifiedTwice ==
    AllClean =>
        \A k \in DOMAIN sentLog :
            \A i, j \in 1 .. Len(sentLog[k]) :
                i # j => sentLog[k][i] # sentLog[k][j]

\* C3, amended: a window equal to or contained in the window most recently
\* notified for its dedupe key is not notified; the store holds that most
\* recent window only, so each notified window is not contained in the one
\* notified just before it.
C3_NotContainedInLastSent ==
    \A k \in DOMAIN sentLog :
        /\ \A i \in 1 .. Len(sentLog[k]) - 1 :
              ~ IsContainedIn(sentLog[k][i + 1], sentLog[k][i])
        /\ lastSentWindows[k] =
              IF sentLog[k] = << >> THEN << >>
              ELSE << sentLog[k][Len(sentLog[k])] >>

\* after two notifications the window notified last is detected again and
\* suppressed
C3_Witness ==
    /\ Evaluated
    /\ AllClean
    /\ Len(sentLog[DedupeKey(LastAlert)]) = 2
    /\ outcome.last = "suppressed"
    /\ outcome.window = << sentLog[DedupeKey(LastAlert)][2] >>

\* C4: the stored window and lastNotifiedAt change only in the evaluation of a
\* rule for which sendMessage returned, setLastWindow and touchAlertNotified
\* are called at most once per evaluated rule, and when the send is suppressed
\* or sendMessage throws neither is called and both stores stay as they were.
C4_WriteOnlyAfterSend ==
    [][/\ (lastSentWindows' # lastSentWindows \/ lastNotifiedAt' # lastNotifiedAt)
          => /\ outcome'.delivered
             /\ calls'.last.send = 1
             /\ outcome'.fault.point # "send"
       /\ calls'.last.setLast <= 1
       /\ calls'.last.touch <= 1
       /\ calls'.last.setLast + calls'.last.touch > 0 => outcome'.delivered
       /\ (outcome'.last = "suppressed" \/ outcome'.fault.point = "send")
          => /\ calls'.last.setLast = 0
             /\ calls'.last.touch = 0
             /\ lastSentWindows' = lastSentWindows
             /\ lastNotifiedAt' = lastNotifiedAt]_vars

\* sendMessage threw for a rule with a window: nothing was stored
C4_Witness ==
    /\ Evaluated
    /\ outcome.fault.point = "send"
    /\ outcome.last = "error"
    /\ calls.last.send = 1
    /\ calls.last.setLast = 0
    /\ lastSentWindows[DedupeKey(LastAlert)] = << >>
    /\ lastNotifiedAt[LastAlert.id] = << >>

\* C5: a throw while one rule is evaluated is caught at the rule boundary:
\* stats.errors grows by exactly one, the loop goes on with the next rule, and
\* the run returns with every rule of the list evaluated.
C5_ThrowIsCaught ==
    [][/\ (pc = "running" /\ pc' = "running" /\ idx' # idx)
          => /\ idx' = idx + 1
             /\ calls'.rules = calls.rules + 1
             /\ stats'.errors = stats.errors
                                + (IF outcome'.fault = NoFault THEN 0 ELSE 1)
             /\ outcome'.fault # NoFault => outcome'.last = "error"
       /\ (pc = "running" /\ pc' = "idle")
          => /\ calls.rules = Len(alerts)
             /\ stats' = stats]_vars

\* the first of two rules threw, the second was evaluated and notified, and
\* the run returned
C5_Witness ==
    /\ pc = "idle"
    /\ Len(alerts) = 2
    /\ calls.rules = 2
    /\ stats.errors = 1
    /\ outcome.fault = NoFault
    /\ outcome.last = "sent"

\* C6 as stated: in one run fetchForecasts is called at most once per spot.
C6_FetchOncePerSpot ==
    \A s \in Spots : calls.fetches[s] <= 1

\* C7: a rule with enabled = false is skipped entirely: its evaluation calls
\* no collaborator and no hook, and leaves the memo, the statistics and both
\* stores as they were.
C7_DisabledIsSkipped ==
    [][(pc = "running" /\ idx <= Len(alerts) /\ idx' = idx + 1
        /\ alerts[idx].enabled = FALSE)
       => /\ calls'.last = ZeroCalls
          /\ calls'.run = calls.run
          /\ calls'.fetches = calls.fetches
          /\ forecastsBySpot' = forecastsBySpot
          /\ stats' = stats
          /\ lastSentWindows' = lastSentWindows
          /\ lastNotifiedAt' = lastNotifiedAt
          /\ sentLog' = sentLog]_vars

\* a disabled rule of a spot with matching forecasts was passed over
C7_Witness ==
    /\ Evaluated
    /\ LastAlert.enabled = FALSE
    /\ env.fc[LastAlert.spot] = AllGood(1, MaxSlots)
    /\ outcome.last = "disabled"
    /\ calls.last = ZeroCalls

-----------------------------------------------------------------------------
(* shouldSendWindow applied to bounded inputs *)

\* window bounds range over 0 .. MaxWindowMs
MaxWindowMs == 5

\* AlertWindow: a window ends after it starts (newWindow ends an hour after
\* its last sample)
Windows ==
    { w \in [startMs : 0 .. MaxWindowMs, endMs : 0 .. MaxWindowMs] :
        w.startMs < w.endMs }

\* AlertWindow | undefined
OptWindows == { << >> } \cup { << w >> : w \in Windows }

\* no rule, no run: the runner at rest while a pure function is applied
RunnerAtRest == InitRunner({ << >> })

\* a call about to be made: its arguments, and no result yet
InitShouldSend ==
    /\ call \in { [fn |-> "shouldSendWindow", last |-> last, next |-> next,
                    result |-> << >>] : last \in OptWindows, next \in Windows }
    /\ RunnerAtRest
    /\ NoScheduler

CallShouldSendWindow ==
    /\ call.fn = "shouldSendWindow"
    /\ call.result = << >>
    /\ call' = [call EXCEPT
                   !.result = << ShouldSendWindow(call.last, call.next) >>]
    /\ UNCHANGED runnerVars
    /\ UNCHANGED timerVars

NextShouldSend == CallShouldSendWindow

SpecShouldSend == InitShouldSend /\ [][NextShouldSend]_vars

\* C1: shouldSendWindow(last, next) is false exactly when a last window exists
\* and next is equal to or contained in it (next.startMs >= last.startMs and
\* next.endMs <= last.endMs); it is true without a last window and for every
\* next that starts before last, ends after last, or is disjoint from last.
C1_ShouldSendWindow ==
    (call.fn = "shouldSendWindow" /\ call.result # << >>) =>
        /\ (call.result = << FALSE >>) <=>
              (call.last # << >> /\ IsContainedIn(call.next, call.last[1]))
        /\ call.last = << >> => call.result = << TRUE >>
        /\ call.last # << >> =>
              ((\/ call.next.startMs < call.last[1].startMs
                \/ call.next.endMs > call.last[1].endMs
                \/ IsDisjointFrom(call.next, call.last[1]))
               => call.result = << TRUE >>)

\* a next window strictly inside the last one is not sent
C1_Witness ==
    /\ call.fn = "shouldSendWindow"
    /\ call.last # << >>
    /\ call.next.startMs > call.last[1].startMs
    /\ call.next.endMs < call.last[1].endMs
    /\ call.result = << FALSE >>

-----------------------------------------------------------------------------
(* buildCandidateMatches applied to bounded inputs *)

\* samples per call, and the span of sample instants in half hours
MaxCandidates == 2
MaxHoraSpan == 15

\* the instants of the samples: 08:30, 09:00, ... of the fixture day
CandidateTimes ==
    { FixtureDay * DayHours * HOUR + 17 + h : h \in 0 .. MaxHoraSpan }

\* matchesFound: samples that passed the thresholds and daylight, in time order
CandidateLists ==
    { << MkForecast(<< t >>, GoodEnergy) >> : t \in CandidateTimes }
    \cup (IF MaxCandidates >= 2
          THEN { << MkForecast(<< p[1] >>, GoodEnergy),
                    MkForecast(<< p[2] >>, GoodEnergy) >> :
                   p \in { q \in CandidateTimes \X CandidateTimes :
                             q[1] < q[2] } }
          ELSE { })

MkTide(hora, altura, tipo) ==
    [date |-> FixtureDay, hora |-> hora, altura |-> altura, tipo |-> tipo]

\* the tide lists a day may have: none, the fixture's, one type only, an event
\* whose hora does not parse, two high tides, a flat day
TideListSet ==
    { << >>,
      MkTides(FixtureDay),
      << MkTide(25, 31, "pleamar") >>,
      << MkTide(14, 8, "bajamar") >>,
      << MkTide(BadHora, 30, "pleamar"), MkTide(25, 31, "pleamar"),
         MkTide(38, 7, "bajamar") >>,
      << MkTide(BadHora, 30, "pleamar"), MkTide(BadHora, 7, "bajamar") >>,
      << MkTide(18, 30, "pleamar"), MkTide(24, 9, "bajamar"),
         MkTide(30, 31, "pleamar") >>,
      << MkTide(14, 20, "bajamar"), MkTide(25, 20, "pleamar") >> }

\* tidePreference: 'low' | 'mid' | 'high' | 'any' | undefined
TidePreferences == { << "high" >>, << "low" >>, << "mid" >>, << "any" >>, << >> }

TidesOfDay(list) == [k \in { << DefaultPort, FixtureDay >> } |-> list]

InitCandidates ==
    /\ call \in { [fn |-> "buildCandidateMatches",
                    alert |-> MkAlert("a1", 123, "sopelana", TRUE, pref),
                    matchesFound |-> found, tideEvents |-> list,
                    result |-> << >>] :
                      pref \in TidePreferences, found \in CandidateLists,
                      list \in TideListSet }
    /\ RunnerAtRest
    /\ NoScheduler

CallBuildCandidateMatches ==
    /\ call.fn = "buildCandidateMatches"
    /\ call.result = << >>
    /\ call' = [call EXCEPT
                   !.result = << BuildCandidateMatches(
                                     call.alert, call.matchesFound,
                                     TidesOfDay(call.tideEvents), 0) >>]
    /\ UNCHANGED runnerVars
    /\ UNCHANGED timerVars

NextCandidates == CallBuildCandidateMatches

SpecCandidates == InitCandidates /\ [][NextCandidates]_vars

\* buildCandidateMatches has returned
Returned == call.fn = "buildCandidateMatches" /\ call.result # << >>

\* what it returned: out, and the tide discards it counted
Out == call.result[1].out

TideDiscards == call.result[1].tide

\* the samples it kept
KeptForecasts == [i \in 1 .. Len(Out) |-> Out[i].forecast]

\* an event of the given tipo with a parseable time lies within three hours,
\* bounds included, of the instant ts
TideEventWithin3h(ts, events, tipo) ==
    \E j \in 1 .. Len(events) :
        /\ events[j].tipo = tipo
        /\ events[j].hora \in 0 .. (DayHours * HOUR - 1)
        /\ Abs(events[j].date * DayHours * HOUR + events[j].hora - ts) <= 3 * HOUR

NearTide(f) ==
    TideEventWithin3h(f.date[1], call.tideEvents,
                      IF call.alert.tidePreference = << "high" >>
                      THEN "pleamar" ELSE "bajamar")

\* C8: with tide preference high (low) a sample is kept if and only if the
\* day's tide list has a pleamar (bajamar) event and the sample lies within
\* three hours, bounds included, of the nearest one; its interpolated tide
\* class is not consulted; every other sample is counted as a tide discard.
C8_HighLowTideWindow ==
    (Returned /\ call.alert.tidePreference \in { << "high" >>, << "low" >> })
    => /\ KeptForecasts = SelectSeq(call.matchesFound, NearTide)
       /\ TideDiscards = Len(call.matchesFound) - Len(Out)
       /\ \A i \in 1 .. Len(Out) :
             Out[i].tideClass =
                 TideEstimate(Out[i].forecast.date[1], call.tideEvents).tideClass

\* a high-tide rule keeps a sample exactly three hours before the high tide
\* although its tide class is mid, and discards the sample before it
C8_Witness ==
    /\ Returned
    /\ call.alert.tidePreference = << "high" >>
    /\ call.tideEvents = MkTides(FixtureDay)
    /\ Len(call.matchesFound) = 2
    /\ call.matchesFound[1].date[1] = FixtureDay * DayHours * HOUR + 18
    /\ call.matchesFound[2].date[1] = FixtureDay * DayHours * HOUR + 19
    /\ Len(Out) = 1
    /\ Out[1].forecast = call.matchesFound[2]
    /\ Out[1].tideClass = << "mid" >>
    /\ TideDiscards = 1

IsMidTide(f) ==
    TideEstimate(f.date[1], call.tideEvents).tideClass = << "mid" >>

\* C9: with tide preference mid a sample is kept if and only if its
\* interpolated tide class is computable and is mid (none is computable on a
\* day without tide events); with preference any, or none, every sample is
\* kept and no tide discard is counted, also when the tide list is empty.
C9_MidAndAnyTide ==
    Returned =>
        /\ call.alert.tidePreference = << "mid" >> =>
              /\ KeptForecasts = SelectSeq(call.matchesFound, IsMidTide)
              /\ TideDiscards = Len(call.matchesFound) - Len(Out)
              /\ call.tideEvents = << >> => Out = << >>
        /\ call.alert.tidePreference \in { << "any" >>, << >> } =>
              /\ KeptForecasts = call.matchesFound
              /\ TideDiscards = 0

\* a mid rule keeps the sample of mid tide and discards the one of low tide
C9_Witness ==
    /\ Returned
    /\ call.alert.tidePreference = << "mid" >>
    /\ Len(call.matchesFound) = 2
    /\ Len(Out) = 1
    /\ Out[1].forecast = call.matchesFound[2]
    /\ Out[1].tideClass = << "mid" >>
    /\ TideEstimate(call.matchesFound[1].date[1], call.tideEvents).tideClass
          = << "low" >>
    /\ TideDiscards = 1

-----------------------------------------------------------------------------
(* core/scheduler.ts: msUntilNextMadridHourMinute, in milliseconds *)

SECOND_MS == 1000
MINUTE_MS == 60 * 1000
HOUR_MS == 60 * 60 * 1000

\* const MAX_SCAN_MINUTES = 6 * 60
MAX_SCAN_MINUTES == 6 * 60

\* An instant is counted in ms from 00:00 UTC of the day the model looks at.
\* The days are 2026-02-15 (CET all day), 2026-03-29 (CET until 01:00 UTC, CEST
\* after: 02:00 civil becomes 03:00) and 2026-10-25 (CEST until 01:00 UTC, CET
\* after: 03:00 civil becomes 02:00); UTC offsets in hours.
MadridDays ==
    { [name |-> "winter", before |-> 1, after |-> 1],
      [name |-> "spring-forward", before |-> 1, after |-> 2],
      [name |-> "fall-back", before |-> 2, after |-> 1] }

\* the UTC offset of Europe/Madrid at the instant ms of the day
MadridOffsetMs(day, ms) ==
    (IF ms < HOUR_MS THEN day.before ELSE day.after) * HOUR_MS

\* madridParts(date): the civil hour, minute and second of the instant
MadridParts(day, ms) ==
    [hour |-> ((ms + MadridOffsetMs(day, ms)) \div HOUR_MS) % DayHours,
     minute |-> ((ms + MadridOffsetMs(day, ms)) \div MINUTE_MS) % 60,
     second |-> ((ms + MadridOffsetMs(day, ms)) \div SECOND_MS) % 60]

IsPastNever(candidateMs, nowMs) == FALSE

\* candidateMs <= nowMs
IsPast(candidateMs, nowMs) == candidateMs <= nowMs

ClampDelayNone(ms) == ms

\* Math.max(1_000, ms)
ClampDelay(ms) == Max(SECOND_MS, ms)

\* the for-loop of msUntilNextMadridHourMinute
RECURSIVE ScanMinutes(_, _, _, _, _)
ScanMinutes(day, nowMs, firstMinuteBoundary, targetMinute, offset) ==
    IF offset > MAX_SCAN_MINUTES THEN ClampDelay(HOUR_MS)
    ELSE IF IsPast(firstMinuteBoundary + offset * MINUTE_MS, nowMs)
    THEN ScanMinutes(day, nowMs, firstMinuteBoundary, targetMinute, offset + 1)
    ELSE IF MadridParts(day, firstMinuteBoundary + offset * MINUTE_MS).minute
            # targetMinute
    THEN ScanMinutes(day, nowMs, firstMinuteBoundary, targetMinute, offset + 1)
    ELSE ClampDelay(firstMinuteBoundary + offset * MINUTE_MS - nowMs)

\* (one hour from now, whatever the minute)
MsUntilNextHour(day, nowMs, minute) == HOUR_MS
\* msUntilNextMadridHourMinute(now, minute) for a minute in 0 .. 59
MsUntilNextMadridHourMinute(day, nowMs, minute) ==
    ScanMinutes(day, nowMs,
                ((nowMs + SECOND_MS) \div MINUTE_MS) * MINUTE_MS, minute, 0)

\* the instants now: hour, minute and millisecond of the minute, UTC
NowHours == { 0, 1, 18 }
NowMinutes == { 3, 28, 58, 59 }
NowMillis == { 0, 1, 58999, 59000, 59999 }

NowSet ==
    { h * HOUR_MS + m * MINUTE_MS + x :
        h \in NowHours, m \in NowMinutes, x \in NowMillis }

InitScheduler ==
    /\ call \in { [fn |-> "msUntilNextMadridHourMinute", day |-> d,
                   nowMs |-> n, minute |-> m, result |-> << >>] :
                     d \in MadridDays, n \in NowSet, m \in 0 .. 59 }
    /\ RunnerAtRest
    /\ NoScheduler

CallMsUntilNext ==
    /\ call.fn = "msUntilNextMadridHourMinute"
    /\ call.result = << >>
    /\ call' = [call EXCEPT
                   !.result = << MsUntilNextMadridHourMinute(
                                     call.day, call.nowMs, call.minute) >>]
    /\ UNCHANGED runnerVars
    /\ UNCHANGED timerVars

NextScheduler == CallMsUntilNext

SpecScheduler == InitScheduler /\ [][NextScheduler]_vars

Delayed == call.fn = "msUntilNextMadridHourMinute" /\ call.result # << >>

\* the instant the timer fires, and the start of its civil minute
FireMs == call.nowMs + call.result[1]

FireMinuteStart == (FireMs \div MINUTE_MS) * MINUTE_MS

\* C10: the delay d returned for now and a target minute m in 0 .. 59 is
\* positive, now + d lies in a civil minute of Europe/Madrid whose
\* minute-of-hour is m, and that minute is the first one starting strictly
\* after now with minute-of-hour m; 19:28 and m = 10 give 42 minutes, 19:03
\* gives 7 minutes; the same holds across both daylight-saving transitions.
C10_NextMadridMinute ==
    Delayed =>
        /\ call.result[1] > 0
        /\ MadridParts(call.day, FireMs).minute = call.minute
        /\ FireMinuteStart > call.nowMs
        /\ \A k \in (call.nowMs \div MINUTE_MS) + 1 .. (FireMs \div MINUTE_MS) - 1 :
              MadridParts(call.day, k * MINUTE_MS).minute # call.minute
        /\ (call.day.name = "winter" /\ call.minute = 10
            /\ call.nowMs = 18 * HOUR_MS + 28 * MINUTE_MS)
           => call.result[1] = 42 * MINUTE_MS
        /\ (call.day.name = "winter" /\ call.minute = 10
            /\ call.nowMs = 18 * HOUR_MS + 3 * MINUTE_MS)
           => call.result[1] = 7 * MINUTE_MS

\* at 01:58 civil on the spring-forward day the timer for minute 5 fires at
\* 03:05 civil, seven minutes later
C10_Witness ==
    /\ Delayed
    /\ call.day.name = "spring-forward"
    /\ call.minute = 5
    /\ MadridParts(call.day, call.nowMs).hour = 1
    /\ MadridParts(call.day, call.nowMs).minute = 58
    /\ MadridParts(call.day, FireMs).hour = 3
    /\ MadridParts(call.day, FireMs).minute = 5
    /\ call.result[1] = 7 * MINUTE_MS

\* C11: msUntilNextMadridHourMinute never returns a delay below 1000 ms, for
\* any now and any target minute in 0 .. 59: no timer is armed with a zero or
\* negative delay.
C11_DelayAtLeastOneSecond ==
    Delayed => call.result[1] >= SECOND_MS

\* one millisecond before the target minute starts the distance is 1 ms and
\* the delay returned is one second
C11_Witness ==
    /\ Delayed
    /\ call.nowMs % MINUTE_MS = MINUTE_MS - 1
    /\ MadridParts(call.day, call.nowMs + 1).minute = call.minute
    /\ call.result[1] = SECOND_MS

-----------------------------------------------------------------------------
(* core/scheduler.ts: startHourlySchedulerAtMinute *)

MaxTimers == 3
MaxStops == 2

\* index.ts starts the scheduler for minute 10
SchedulerMinute == 10

SchedulerDay == CHOOSE d \in MadridDays : d.name = "winter"

\* the instants now() returns when schedule() runs: 18:03:00.000,
\* 18:09:59.999 and 18:10:00.500 UTC
SchedulerNows ==
    { 18 * HOUR_MS + 3 * MINUTE_MS,
      18 * HOUR_MS + 10 * MINUTE_MS - 1,
      18 * HOUR_MS + 10 * MINUTE_MS + 500 }

PendingTimers == { i \in 1 .. Len(timers) : timers[i].state = "pending" }

\* setTimeout(callback, delay) at the instant now: one more pending timeout
SetTimeout(ts, delay, now) ==
    Append(ts, [state |-> "pending", delay |-> delay, at |-> now])

\* clearTimeout(timer): a timeout that has fired is left as it is
ClearTimeout(ts, i) ==
    IF ts[i].state = "pending" THEN [ts EXCEPT ![i].state = "cleared"] ELSE ts

MarkFiredStillPending(ts, i) == ts

\* a timeout fires once: it is no longer pending when its callback runs
MarkFired(ts, i) == [ts EXCEPT ![i].state = "fired"]

ScheduleReturnsEarlyNever(isStopped) == FALSE

\* if (stopped) return
ScheduleReturnsEarly(isStopped) == isStopped

\* schedule(), called at the instant now with the timeouts ts
Schedule(ts, now) ==
    IF ScheduleReturnsEarly(stopped)
    THEN timers' = ts /\ timer' = timer
    ELSE /\ timers' = SetTimeout(ts, MsUntilNextMadridHourMinute(
                                         SchedulerDay, now, SchedulerMinute),
                                 now)
         /\ timer' = Len(ts) + 1

\* startHourlySchedulerAtMinute has returned its handle: schedule() ran once
SchedulerStarted ==
    /\ \E now \in SchedulerNows :
          timers = SetTimeout(<< >>, MsUntilNextMadridHourMinute(
                                         SchedulerDay, now, SchedulerMinute),
                              now)
    /\ timer = 1
    /\ stopped = FALSE
    /\ tally = [started |-> 0, stops |-> 0, commands |-> 0, escaped |-> 0]

InitTimer ==
    /\ call = NoCall
    /\ RunnerAtRest
    /\ SchedulerStarted
    /\ runs = [startup |-> 0, scheduler |-> 0, runnow |-> 0]
    /\ wall = 0
    /\ begun = << >>
    /\ tasks = << >>
    /\ notificationLog = << >>
    /\ recorded = << >>

\* a pending timeout fires and its callback runs up to the await: run() is
\* called unless stopped; a run() that throws at once goes through the
\* finally block (schedule()) and the exception leaves the callback
TimerFires(outcomes) ==
    /\ Len(timers) < MaxTimers
    /\ \E i \in PendingTimers :
          IF stopped
          THEN /\ timers' = MarkFired(timers, i)
               /\ UNCHANGED << timer, runs, tally >>
          ELSE \E how \in outcomes :
                  /\ tally' = [tally EXCEPT
                                  !.started = @ + 1,
                                  !.escaped = IF how = "throws" THEN @ + 1 ELSE @]
                  /\ IF how = "throws"
                     THEN /\ \E now \in SchedulerNows :
                                Schedule(MarkFired(timers, i), now)
                          /\ UNCHANGED runs
                     ELSE /\ timers' = MarkFired(timers, i)
                          /\ runs' = [runs EXCEPT !.scheduler = @ + 1]
                          /\ UNCHANGED timer
    /\ UNCHANGED << call, stopped, wall, begun, tasks >>
    /\ UNCHANGED logVars
    /\ UNCHANGED runnerVars

\* the awaited run() settles: the finally block calls schedule(); a rejection
\* is rethrown after it, out of the callback
RunSettles(hows) ==
    /\ runs.scheduler > 0
    /\ \E how \in hows, now \in SchedulerNows :
          /\ runs' = [runs EXCEPT !.scheduler = @ - 1]
          /\ Schedule(timers, now)
          /\ tally' = [tally EXCEPT
                          !.escaped = IF how = "rejected" THEN @ + 1 ELSE @]
    /\ UNCHANGED << call, stopped, wall, begun, tasks >>
    /\ UNCHANGED logVars
    /\ UNCHANGED runnerVars

\* stop() of the handle
Stop ==
    /\ tally.stops < MaxStops
    /\ stopped' = TRUE
    /\ timers' = IF timer # 0 THEN ClearTimeout(timers, timer) ELSE timers
    /\ timer' = 0
    /\ tally' = [tally EXCEPT !.stops = @ + 1]
    /\ UNCHANGED << call, runs, wall, begun, tasks >>
    /\ UNCHANGED logVars
    /\ UNCHANGED runnerVars

NextTimer ==
    \/ TimerFires({"throws", "awaits"})
    \/ RunSettles({"resolved", "rejected"})
    \/ Stop

SpecTimer == InitTimer /\ [][NextTimer]_vars

\* C12: once stop() has been called no run() is started and no timeout is
\* created any more, and no timeout is left pending, whether stop() came
\* while a timeout was pending or while a run was in progress (that run
\* settles without arming a timer); a further stop() changes nothing.
C12_StopIsFinal ==
    [][/\ stopped' => PendingTimers' = {}
       /\ stopped =>
             /\ stopped'
             /\ tally'.started = tally.started
             /\ Len(timers') = Len(timers)
             /\ timer' = 0
       /\ (stopped /\ tally'.stops # tally.stops) =>
             << timers, timer, stopped, runs >>'
                = << timers, timer, stopped, runs >>]_vars

\* stop() was called while the first run was in progress and again later;
\* the run has settled and the only timeout ever created is the one that
\* started it
C12_Witness ==
    /\ stopped
    /\ tally.stops = 2
    /\ tally.started = 1
    /\ runs.scheduler = 0
    /\ Len(timers) = 1
    /\ timers[1].state = "fired"

\* C13: a scheduler has at most one pending timeout and at most one run in
\* progress, and while a run is in progress no timeout is pending: the next
\* one is armed only when the awaited run() has settled.
C13_OneTimerOneRun ==
    /\ Cardinality(PendingTimers) <= 1
    /\ runs.scheduler <= 1
    /\ runs.scheduler = 1 => PendingTimers = {}

\* two runs have been started and have settled, and the third timeout is the
\* only one pending
C13_Witness ==
    /\ tally.started = 2
    /\ runs.scheduler = 0
    /\ ~stopped
    /\ Len(timers) = 3
    /\ PendingTimers = {3}
    /\ timer = 3

\* C14: an exception of run(), thrown or as a rejection, never leaves the
\* timer callback: the scheduler catches it, and the next timeout is armed
\* unless stop() was called.
C14_ThrowIsCaught == tally.escaped = 0

-----------------------------------------------------------------------------
(* index.ts: the runs of runChecks in the process *)

MaxCommands == 2

\* the state after the module body of index.ts has run: the scheduler is
\* started and the startup run (void runChecks()) is in progress
InitProcess ==
    /\ call = NoCall
    /\ RunnerAtRest
    /\ SchedulerStarted
    /\ runs = [startup |-> 1, scheduler |-> 0, runnow |-> 0]
    /\ wall = 0
    /\ begun = << >>
    /\ tasks = << >>
    /\ notificationLog = << >>
    /\ recorded = << >>

\* the startup run settles; its rejection is caught and reported
StartupRunSettles ==
    /\ runs.startup > 0
    /\ runs' = [runs EXCEPT !.startup = @ - 1]
    /\ UNCHANGED << call, timers, timer, stopped, tally, wall, begun, tasks >>
    /\ UNCHANGED logVars
    /\ UNCHANGED runnerVars

\* bot.command('runnow'): outside the developer chat the handler returns;
\* otherwise it calls runChecks().  The bot hands one update at a time to
\* its handlers, so the command is not handled while an earlier one awaits.
RunNowCommand ==
    /\ tally.commands < MaxCommands
    /\ runs.runnow = 0
    /\ \E isDevChat \in BOOLEAN :
          runs' = [runs EXCEPT !.runnow = IF isDevChat THEN @ + 1 ELSE @]
    /\ tally' = [tally EXCEPT !.commands = @ + 1]
    /\ UNCHANGED << call, timers, timer, stopped, wall, begun, tasks >>
    /\ UNCHANGED logVars
    /\ UNCHANGED runnerVars

\* the run of /runnow settles and the handler replies
RunNowSettles ==
    /\ runs.runnow > 0
    /\ runs' = [runs EXCEPT !.runnow = @ - 1]
    /\ UNCHANGED << call, timers, timer, stopped, tally, wall, begun, tasks >>
    /\ UNCHANGED logVars
    /\ UNCHANGED runnerVars

\* the scheduler's run is runChecks().catch(...): it awaits and never rejects
NextProcess ==
    \/ TimerFires({"awaits"})
    \/ RunSettles({"resolved"})
    \/ StartupRunSettles
    \/ RunNowCommand
    \/ RunNowSettles

SpecProcess == InitProcess /\ [][NextProcess]_vars

RunsInProgress == runs.startup + runs.scheduler + runs.runnow

\* C15: at any time at most one run of runChecks is in progress in the
\* process, counting the startup run, the scheduler's runs and the runs of
\* /runnow.
C15_RunsDoNotOverlap == RunsInProgress <= 1

-----------------------------------------------------------------------------
(* core/alert-engine.ts: firstConsecutiveWindow applied to bounded inputs *)

MaxWindowItems == 3
MaxMinHours == 3

\* the instants of the candidates: 09:00, 09:30, 10:00, 11:00 and 12:00
WindowTimes == { SlotMs(1), SlotMs(1) + 1, SlotMs(2), SlotMs(3), SlotMs(4) }

\* a CandidateMatch; the tide class tells two samples of one instant apart
MkCandidate(t, tideClass) ==
    [forecast |-> MkForecast(<< t >>, GoodEnergy),
     tideClass |-> << tideClass >>, tideHeight |-> << >>]

WindowCandidates ==
    { MkCandidate(t, c) : t \in WindowTimes, c \in { "mid", "high" } }

WindowItemLists ==
    UNION { [1 .. n -> WindowCandidates] : n \in 0 .. MaxWindowItems }

InitWindow ==
    /\ call \in { [fn |-> "firstConsecutiveWindow", items |-> l,
                   minHours |-> h, result |-> << >>] :
                     l \in WindowItemLists, h \in 0 .. MaxMinHours }
    /\ RunnerAtRest
    /\ NoScheduler

CallFirstConsecutiveWindow ==
    /\ call.fn = "firstConsecutiveWindow"
    /\ call.result = << >>
    /\ call' = [call EXCEPT
                   !.result = << FirstConsecutiveWindow(call.items,
                                                        call.minHours) >>,
                   !.items = ItemsAfterCall(call.items)]
    /\ UNCHANGED runnerVars
    /\ UNCHANGED timerVars

NextWindow == CallFirstConsecutiveWindow

SpecWindow == InitWindow /\ [][NextWindow]_vars

WindowCalled == call.fn = "firstConsecutiveWindow" /\ call.result # << >>

\* the orderings of a list
Arrangements(items) ==
    { [i \in 1 .. Len(items) |-> items[p[i]]] :
        p \in { f \in [1 .. Len(items) -> 1 .. Len(items)] :
                  \A i, j \in 1 .. Len(items) : f[i] = f[j] => i = j } }

TimeSorted(q) == \A i \in 1 .. Len(q) - 1 : ItemMs(q[i]) <= ItemMs(q[i + 1])

OneHourApart(q, i) == ItemMs(q[i + 1]) - ItemMs(q[i]) = HOUR

\* q[s] .. q[e] is a run of samples one hour apart that cannot be extended
IsMaximalRun(q, s, e) ==
    /\ s <= e
    /\ \A i \in s .. e - 1 : OneHourApart(q, i)
    /\ s = 1 \/ ~OneHourApart(q, s - 1)
    /\ e = Len(q) \/ ~OneHourApart(q, e)

QualifyingRuns(q, minHours) ==
    { r \in (1 .. Len(q)) \X (1 .. Len(q)) :
        IsMaximalRun(q, r[1], r[2]) /\ r[2] - r[1] + 1 >= minHours }

\* w is the qualifying run of q with the earliest start
IsFirstRunOf(q, minHours, w) ==
    \E r \in QualifyingRuns(q, minHours) :
        /\ \A o \in QualifyingRuns(q, minHours) : r[1] <= o[1]
        /\ w = [start |-> q[r[1]], end |-> q[r[2]], hours |-> r[2] - r[1] + 1,
                items |-> SubSeq(q, r[1], r[2])]

DistinctTimes(items) ==
    \A i, j \in 1 .. Len(items) : ItemMs(items[i]) = ItemMs(items[j]) => i = j

\* the window's boundaries and length, << >> for no window
Extent(r) ==
    IF r = << >> THEN << >>
    ELSE << ItemMs(r[1].start), ItemMs(r[1].end), r[1].hours >>

\* C16 as stated: the window returned is the same for every ordering of the
\* input list.
C16_SameForEveryOrdering ==
    WindowCalled =>
        \A q \in Arrangements(call.items) :
            FirstConsecutiveWindow(q, call.minHours) = call.result[1]

\* C16: a window returned is, in a time-ordered arrangement of the input, the
\* maximal run of samples one hour apart with the earliest start among those
\* of length >= minHours (the first such run, not the longest); for every
\* ordering of the input the window has the same start time, end time and
\* length, and the same items when no two candidates share a timestamp.
C16_FirstQualifyingRun ==
    WindowCalled =>
        /\ call.result[1] # << >> =>
              \E q \in Arrangements(call.items) :
                  /\ TimeSorted(q)
                  /\ IsFirstRunOf(q, call.minHours, call.result[1][1])
        /\ \A q \in Arrangements(call.items) :
              /\ Extent(FirstConsecutiveWindow(q, call.minHours))
                    = Extent(call.result[1])
              /\ DistinctTimes(call.items) =>
                    FirstConsecutiveWindow(q, call.minHours) = call.result[1]

\* 11:00, 09:00, 10:00 with a minimum of 2: the window starts at 09:00 and
\* is three hours long
C16_Witness ==
    /\ WindowCalled
    /\ call.minHours = 2
    /\ Len(call.items) = 3
    /\ ItemMs(call.items[1]) = SlotMs(3)
    /\ ItemMs(call.items[2]) = SlotMs(1)
    /\ ItemMs(call.items[3]) = SlotMs(2)
    /\ Extent(call.result[1]) = << SlotMs(1), SlotMs(3), 3 >>

\* C17: firstConsecutiveWindow returns null exactly when the input is empty
\* or no maximal run of samples one hour apart in the time-ordered input has
\* length >= minHours; a non-empty input and minHours <= 1 always give a
\* window; 09:00 and 11:00 alone with minHours 2 give null.
C17_NullIffNoQualifyingRun ==
    WindowCalled =>
        /\ call.result[1] = << >>
              <=> \/ call.items = << >>
                  \/ \A q \in Arrangements(call.items) :
                        TimeSorted(q) => QualifyingRuns(q, call.minHours) = { }
        /\ (call.items # << >> /\ call.minHours <= 1) => call.result[1] # << >>
        /\ ( /\ call.minHours = 2
             /\ Len(call.items) = 2
             /\ { ItemMs(call.items[i]) : i \in 1 .. 2 } = { SlotMs(1), SlotMs(3) } )
           => call.result[1] = << >>

\* 11:00 and 09:00 with a minimum of 2: no window
C17_Witness ==
    /\ WindowCalled
    /\ call.minHours = 2
    /\ Len(call.items) = 2
    /\ ItemMs(call.items[1]) = SlotMs(3)
    /\ ItemMs(call.items[2]) = SlotMs(1)
    /\ call.result[1] = << >>

-----------------------------------------------------------------------------
(* core/alert-engine.ts: matchDetail applied to bounded inputs *)

MaxWindRanges == 2

\* interval lists of a rule; the empty list also stands for an absent one
WaveRangeLists ==
    { << >>, << [min |-> 12, max |-> 22] >>,
      << [min |-> 5, max |-> 10], [min |-> 25, max |-> 35] >> }

PeriodRangeLists ==
    { << >>, << [min |-> 10, max |-> 13] >>,
      << [min |-> 6, max |-> 8], [min |-> 14, max |-> 16] >> }

\* (337.5, 22.5), (22.5, 67.5) and (100, 100) degrees
WindIntervals ==
    { [min |-> 3375, max |-> 225], [min |-> 225, max |-> 675],
      [min |-> 1000, max |-> 1000] }

WindRangeLists ==
    UNION { [1 .. n -> WindIntervals] : n \in 0 .. MaxWindRanges }

\* wind angles of a sample, in tenths of a degree: -100, -10, 0, 22.5, 22.6,
\* 100, 337.4, 337.5, 350, 360, 385 and 710 degrees
WindAngles ==
    { -1000, -100, 0, 225, 226, 1000, 3374, 3375, 3500, 3600, 3850, 7100 }

MatchAlerts ==
    { [MkAlert("alert-1", 123, "sopelana", TRUE, "any") EXCEPT
          !.waveRanges = w, !.periodRanges = p, !.windRanges = d] :
        w \in WaveRangeLists, p \in PeriodRangeLists, d \in WindRangeLists }

\* samples of one swell: 0.8, 1.6, 3 or 12 m high, with a period of 6, 11 or
\* 15 s
MatchForecasts ==
    { [MkForecast(<< SlotMs(1) >>, e) EXCEPT
          !.wind.angle = a,
          !.validSwells = << [angle |-> 300, height |-> h, period |-> p] >>] :
        e \in { LowEnergy, GoodEnergy, 2 * GoodEnergy },
        a \in WindAngles, h \in { 8, 16, 30, 120 }, p \in { 6, 11, 15 } }

InitMatch ==
    /\ call \in { [fn |-> "matchDetail", alert |-> a, f |-> f,
                   result |-> << >>] :
                     a \in MatchAlerts, f \in MatchForecasts }
    /\ RunnerAtRest
    /\ NoScheduler

CallMatchDetail ==
    /\ call.fn = "matchDetail"
    /\ call.result = << >>
    /\ call' = [call EXCEPT !.result = << MatchDetail(call.alert, call.f) >>]
    /\ UNCHANGED runnerVars
    /\ UNCHANGED timerVars

NextMatch == CallMatchDetail

SpecMatch == InitMatch /\ [][NextMatch]_vars

Matched == call.fn = "matchDetail" /\ call.result # << >>

\* the angle in [0, 360) that differs from the sample's by whole turns
ReducedAngle == call.f.wind.angle % FullCircle

\* the angle a lies in the interval r, circular when r.min > r.max
InWindInterval(a, r) ==
    \/ r.min <= r.max /\ r.min <= a /\ a <= r.max
    \/ r.min > r.max /\ (a >= r.min \/ a <= r.max)

\* C18: the wind test passes when the rule has no wind intervals or when the
\* sample's angle, reduced to [0, 360), lies in at least one interval, an
\* interval with min > max being circular; otherwise it fails.  With the
\* interval (337.5, 22.5), 350 passes and 100 fails.
C18_WindTest ==
    Matched =>
        /\ call.result[1].wind
              <=> \/ call.alert.windRanges = << >>
                  \/ \E i \in 1 .. Len(call.alert.windRanges) :
                        InWindInterval(ReducedAngle, call.alert.windRanges[i])
        /\ call.alert.windRanges = << [min |-> 3375, max |-> 225] >> =>
              /\ call.f.wind.angle = 3500 => call.result[1].wind
              /\ call.f.wind.angle = 1000 => ~call.result[1].wind

\* -10 degrees is 350 degrees, inside the circular interval (337.5, 22.5)
C18_Witness ==
    /\ Matched
    /\ call.alert.windRanges = << [min |-> 3375, max |-> 225] >>
    /\ call.f.wind.angle = -100
    /\ call.result[1].wind

\* the single swell's height and period
SwellOf(f) == f.validSwells[1]

EnergyTested ==
    call.result[1].energy
        <=> /\ call.f.energy >= call.alert.energyMin
            /\ call.f.energy <= call.alert.energyMax

\* C19 as stated: a dimension with an empty interval list (wave height,
\* period, wind) passes every sample; energy is always tested.
C19_EmptyListPasses ==
    Matched =>
        /\ call.alert.waveRanges = << >> => call.result[1].wave
        /\ call.alert.periodRanges = << >> => call.result[1].period
        /\ call.alert.windRanges = << >> => call.result[1].wind
        /\ EnergyTested

\* C19: with an empty wind list every sample passes the wind test; with an
\* empty wave-height (period) list the sample is tested against the rule's
\* single waveMin..waveMax (periodMin..periodMax) pair; energy is always
\* tested against energyMin..energyMax.
C19_EmptyListFallsBack ==
    Matched =>
        /\ call.alert.windRanges = << >> => call.result[1].wind
        /\ call.alert.waveRanges = << >> =>
              (call.result[1].wave
                  <=> /\ SwellOf(call.f).height >= call.alert.waveMin
                      /\ SwellOf(call.f).height <= call.alert.waveMax)
        /\ call.alert.periodRanges = << >> =>
              (call.result[1].period
                  <=> /\ SwellOf(call.f).period >= call.alert.periodMin
                      /\ SwellOf(call.f).period <= call.alert.periodMax)
        /\ EnergyTested

\* a rule without interval lists and a 6 s swell: the wave and wind tests
\* pass and the period test fails on periodMin = 9
C19_Witness ==
    /\ Matched
    /\ call.alert.waveRanges = << >>
    /\ call.alert.periodRanges = << >>
    /\ call.alert.windRanges = << >>
    /\ SwellOf(call.f).period = 6
    /\ call.result[1].wave
    /\ call.result[1].wind
    /\ ~call.result[1].period
    /\ ~call.result[1].pass

-----------------------------------------------------------------------------
(* core/check-runner.ts: estimateTideHeightAt applied to bounded inputs *)

MaxTideEvents == 3

\* tide events at 07:00, 13:00, 19:00 or with an hora that does not parse,
\* 0.8 m or 3.2 m high
EstimateEvents ==
    { MkTide(h, a, "pleamar") : h \in { 14, 26, 38, BadHora }, a \in { 8, 32 } }

EstimateEventLists ==
    UNION { [1 .. n -> EstimateEvents] : n \in 0 .. MaxTideEvents }

\* targets from 06:00 to 20:00 of the fixture day
EstimateTargets ==
    { FixtureDay * DayHours * HOUR + h : h \in { 12, 14, 17, 20, 23, 26, 30, 38, 40 } }

InitEstimate ==
    /\ call \in { [fn |-> "estimateTideHeightAt", t |-> t, events |-> l,
                   result |-> << >>] :
                     t \in EstimateTargets, l \in EstimateEventLists }
    /\ RunnerAtRest
    /\ NoScheduler

CallEstimateTideHeightAt ==
    /\ call.fn = "estimateTideHeightAt"
    /\ call.result = << >>
    /\ call' = [call EXCEPT
                   !.result = << EstimateTideHeightAt(call.t, call.events) >>]
    /\ UNCHANGED runnerVars
    /\ UNCHANGED timerVars

NextEstimate == CallEstimateTideHeightAt

SpecEstimate == InitEstimate /\ [][NextEstimate]_vars

Estimated == call.fn = "estimateTideHeightAt" /\ call.result # << >>

\* the positions of the events whose time parses, and the instant of one
Parseable ==
    { i \in 1 .. Len(call.events) :
        ParseUtcDateTime(call.events[i].date, call.events[i].hora) # << >> }

EventMs(i) == ParseUtcDateTime(call.events[i].date, call.events[i].hora)[1]

\* the estimate is the height h
EstimateIs(h) == call.result[1] = << [num |-> h, den |-> 1] >>

\* the estimate lies on the line through events i and j, which are next to
\* each other in time and bracket the target
InterpolatesBetween(i, j) ==
    /\ EventMs(i) < EventMs(j)
    /\ EventMs(i) <= call.t /\ call.t <= EventMs(j)
    /\ \A k \in Parseable : ~(EventMs(i) < EventMs(k) /\ EventMs(k) < EventMs(j))
    /\ call.result[1] # << >>
    /\ call.result[1][1].num * (EventMs(j) - EventMs(i))
          = call.result[1][1].den
              * (call.events[i].altura * (EventMs(j) - EventMs(i))
                   + (call.events[j].altura - call.events[i].altura)
                       * (call.t - EventMs(i)))

\* C20: the estimate is null when no event has a parseable time; the height
\* of the earliest event when the target is at or before it; the height of
\* the latest event when the target is at or after it; otherwise the linear
\* interpolation between the two events bracketing the target (halfway
\* between 0.8 m and 3.2 m: 2.0 m); it never leaves the range of the event
\* heights.
C20_EstimateTideHeight ==
    Estimated =>
        /\ call.result[1] = << >> <=> Parseable = { }
        /\ Parseable # { } =>
              LET first == CHOOSE i \in Parseable :
                               \A k \in Parseable :
                                   \/ EventMs(i) < EventMs(k)
                                   \/ EventMs(i) = EventMs(k) /\ i <= k
                  last == CHOOSE i \in Parseable :
                              \A k \in Parseable :
                                  \/ EventMs(i) > EventMs(k)
                                  \/ EventMs(i) = EventMs(k) /\ i >= k
              IN  /\ call.t <= EventMs(first) =>
                        EstimateIs(call.events[first].altura)
                  /\ (call.t > EventMs(first) /\ call.t >= EventMs(last)) =>
                        EstimateIs(call.events[last].altura)
                  /\ (call.t > EventMs(first) /\ call.t < EventMs(last)) =>
                        \E i, j \in Parseable : InterpolatesBetween(i, j)
                  /\ \E i, j \in Parseable :
                        /\ call.events[i].altura * call.result[1][1].den
                              <= call.result[1][1].num
                        /\ call.result[1][1].num
                              <= call.events[j].altura * call.result[1][1].den
        /\ ( /\ call.events = << MkTide(14, 8, "pleamar"), MkTide(26, 32, "pleamar") >>
             /\ call.t = FixtureDay * DayHours * HOUR + 20 )
           => call.result[1][1].num = 20 * call.result[1][1].den

\* 3.2 m at 13:00 listed before 0.8 m at 07:00, and the target 10:00 halfway
\* between them: 2.0 m
C20_Witness ==
    /\ Estimated
    /\ call.events = << MkTide(26, 32, "pleamar"), MkTide(14, 8, "pleamar") >>
    /\ call.t = FixtureDay * DayHours * HOUR + 20
    /\ call.result[1] # << >>
    /\ call.result[1][1].den > 0
    /\ call.result[1][1].num = 20 * call.result[1][1].den

-----------------------------------------------------------------------------
(* core/check-runner.ts: tideClassByHeight applied to bounded inputs *)

MaxTideHeight == 6

\* heights in decimetres, whole or in thirds
ClassHeights ==
    { [num |-> n, den |-> 1] : n \in 0 .. MaxTideHeight }
    \cup { [num |-> n, den |-> 3] : n \in 0 .. 3 * MaxTideHeight }

InitTideClass ==
    /\ call \in { [fn |-> "tideClassByHeight", height |-> h, min |-> lo,
                   max |-> hi, result |-> << >>] :
                     h \in ClassHeights, lo \in 0 .. MaxTideHeight,
                     hi \in 0 .. MaxTideHeight }
    /\ RunnerAtRest
    /\ NoScheduler

CallTideClassByHeight ==
    /\ call.fn = "tideClassByHeight"
    /\ call.result = << >>
    /\ call' = [call EXCEPT
                   !.result = << TideClassByHeight(call.height, call.min,
                                                   call.max) >>]
    /\ UNCHANGED runnerVars
    /\ UNCHANGED timerVars

NextTideClass == CallTideClassByHeight

SpecTideClass == InitTideClass /\ [][NextTideClass]_vars

Classified == call.fn = "tideClassByHeight" /\ call.result # << >>

\* the height is below min + k thirds of the span max - min
BelowThird(k) ==
    3 * call.height.num
        < call.height.den * (3 * call.min + k * (call.max - call.min))

\* C21: with max > min the class is low below the first third of the span
\* [min, max], mid from the first third (included) to the second (excluded)
\* and high from the second third on; with max <= min it is mid for every
\* height.
C21_TideClassThirds ==
    Classified =>
        IF call.max <= call.min THEN call.result[1] = "mid"
        ELSE /\ call.result[1] = "low" <=> BelowThird(1)
             /\ call.result[1] = "mid" <=> ~BelowThird(1) /\ BelowThird(2)
             /\ call.result[1] = "high" <=> ~BelowThird(2)

\* a height exactly one third up the span is mid
C21_Witness ==
    /\ Classified
    /\ call.min = 1
    /\ call.max = 4
    /\ call.height = [num |-> 2, den |-> 1]
    /\ call.result[1] = "mid"

-----------------------------------------------------------------------------
(* findNearestTides and findNearestTideTsByType applied to bounded inputs *)

\* tide events at 07:00, 12:30, 19:00 or with an hora that does not parse; a
\* high tide, a low tide or an event without a type
NearestEvents ==
    { MkTide(h, 20, tipo) :
        h \in { 14, 25, 38, BadHora }, tipo \in { "pleamar", "bajamar", "" } }

NearestEventLists ==
    UNION { [1 .. n -> NearestEvents] : n \in 0 .. MaxTideEvents }

\* targets at 07:00, 10:00, 13:00, 15:30 and 20:00 of the fixture day
NearestTargets ==
    { FixtureDay * DayHours * HOUR + h : h \in { 14, 20, 26, 31, 40 } }

InitNearest ==
    /\ call \in { [fn |-> "nearest", t |-> t, events |-> l, type |-> "",
                   result |-> << >>] :
                     t \in NearestTargets, l \in NearestEventLists }
    /\ RunnerAtRest
    /\ NoScheduler

\* findNearestTides(target, events); the result keeps low and high
CallFindNearestTides ==
    /\ call.fn = "nearest"
    /\ call' = [call EXCEPT
                   !.fn = "findNearestTides",
                   !.result = << [low |-> FindNearestTides(call.t, call.events).low,
                                  high |-> FindNearestTides(call.t, call.events).high] >>]
    /\ UNCHANGED runnerVars
    /\ UNCHANGED timerVars

CallFindNearestTideTsByType ==
    /\ call.fn = "nearest"
    /\ \E type \in { "high", "low" } :
          call' = [call EXCEPT
                      !.fn = "findNearestTideTsByType",
                      !.type = type,
                      !.result = << FindNearestTideTsByType(call.t, call.events,
                                                            type) >>]
    /\ UNCHANGED runnerVars
    /\ UNCHANGED timerVars

NextNearest == CallFindNearestTides \/ CallFindNearestTideTsByType

SpecNearest == InitNearest /\ [][NextNearest]_vars

\* the positions of the parseable events of a type (pleamar / bajamar)
OfType(tipo) ==
    { i \in 1 .. Len(call.events) :
        /\ call.events[i].tipo = tipo
        /\ ParseUtcDateTime(call.events[i].date, call.events[i].hora) # << >> }

DistanceOf(i) ==
    IF EventMs(i) >= call.t THEN EventMs(i) - call.t ELSE call.t - EventMs(i)

\* i is an event of the type as near to the target as any of that type
IsNearestOfType(i, tipo) ==
    i \in OfType(tipo) /\ \A k \in OfType(tipo) : DistanceOf(i) <= DistanceOf(k)

\* found, an event or null, is a nearest event of the type
NearestEventIs(found, tipo) ==
    IF OfType(tipo) = { } THEN found = << >>
    ELSE /\ found # << >>
         /\ \E i \in OfType(tipo) :
               IsNearestOfType(i, tipo) /\ call.events[i] = found[1]

\* found, an instant or null, is the instant of a nearest event of the type
NearestInstantIs(found, tipo) ==
    IF OfType(tipo) = { } THEN found = << >>
    ELSE /\ found # << >>
         /\ \E i \in OfType(tipo) :
               IsNearestOfType(i, tipo) /\ EventMs(i) = found[1]

TestTides ==
    << MkTide(14, 20, "bajamar"), MkTide(25, 20, "pleamar") >>

\* C22: for the requested type findNearestTides returns an event, and
\* findNearestTideTsByType the instant of an event, of that type whose
\* distance in time to the target is minimal among the parseable events of
\* the type, and none when there is no such event; with a low tide at 07:00,
\* a high tide at 12:30 and the target 10:00, high gives 12:30 and low 07:00.
C22_NearestOfType ==
    /\ call.fn = "findNearestTides" =>
          /\ NearestEventIs(call.result[1].low, "bajamar")
          /\ NearestEventIs(call.result[1].high, "pleamar")
          /\ (call.events = TestTides
              /\ call.t = FixtureDay * DayHours * HOUR + 20) =>
                /\ call.result[1].low = << TestTides[1] >>
                /\ call.result[1].high = << TestTides[2] >>
    /\ call.fn = "findNearestTideTsByType" =>
          /\ NearestInstantIs(call.result[1], Needle(call.type))
          /\ (call.events = TestTides
              /\ call.t = FixtureDay * DayHours * HOUR + 20) =>
                call.result[1]
                    = << FixtureDay * DayHours * HOUR
                           + (IF call.type = "high" THEN 25 ELSE 14) >>

\* low tides at 19:00 and 07:00 and a high tide at 12:30, in this order, and
\* the target 10:00: the low tide found is the one at 07:00
C22_Witness ==
    /\ call.fn = "findNearestTides"
    /\ call.events = << MkTide(38, 20, "bajamar"), MkTide(14, 20, "bajamar"),
                        MkTide(25, 20, "pleamar") >>
    /\ call.t = FixtureDay * DayHours * HOUR + 20
    /\ call.result[1].low = << MkTide(14, 20, "bajamar") >>
    /\ call.result[1].high = << MkTide(25, 20, "pleamar") >>

-----------------------------------------------------------------------------
(* A rule evaluated alone and evaluated in a list *)

\* the context of a run over the single rule alert that starts from the
\* last-sent windows the run in progress started from: nothing memoised,
\* nothing counted
AloneCtx(alert) ==
    [Ctx EXCEPT !.memo = [s \in Spots |-> << >>],
                !.st = ZeroStats(<< alert >>),
                !.store = runStart]

\* whether sendMessage returns for the rule in that run
SentAlone(alert, fault) ==
    EvalAlert(alert, env, AloneCtx(alert), MinConsecutiveHours, clock,
              fault).delivered

\* another rule of the list has the dedupe key of the rule at position i
SharesKey(i) ==
    \E j \in 1 .. Len(alerts) :
        j # i /\ DedupeKey(alerts[j]) = DedupeKey(alerts[i])

\* C23 as stated: whether a rule is notified in a run is what a run over
\* that rule alone, from the same stored last-sent windows, would decide,
\* whatever other rules are in the list and in whatever order.
C23_IndependentOfOtherRules ==
    Evaluated =>
        outcome.delivered = SentAlone(LastAlert, outcome.fault)

\* C23: a rule whose dedupe key (chatId, spot, profile) no other rule of the
\* list shares is notified in a run exactly when a run over that rule alone,
\* from the same stored last-sent windows, would notify it.
C23_IndependentOfOtherKeys ==
    (Evaluated /\ ~SharesKey(idx - 1)) =>
        outcome.delivered = SentAlone(LastAlert, outcome.fault)

\* the second of two rules with different keys is notified, after the first
\* was notified and filled the memo of its spot
C23_Witness ==
    /\ Evaluated
    /\ idx = 3
    /\ ~SharesKey(2)
    /\ alerts[1].spot = alerts[2].spot
    /\ stats.notified = 2
    /\ outcome.delivered

-----------------------------------------------------------------------------
(* Empty forecasts and samples without a date *)

\* the samples whose date new Date() can read
Dated(forecasts) == SelectSeq(forecasts, LAMBDA f : f.date # << >>)

DatedEnv(e) == [e EXCEPT !.fc = [s \in Spots |-> Dated(e.fc[s])]]

DatedMemo(memo) ==
    [s \in Spots |-> IF memo[s] = << >> THEN << >> ELSE << Dated(memo[s][1]) >>]

\* the loop iteration for alert had the collaborators served no sample
\* without a date
EvalDated(alert, fault) ==
    EvalAlert(alert, DatedEnv(env), [Ctx EXCEPT !.memo = DatedMemo(@)],
              MinConsecutiveHours, clock, fault)

\* a loop iteration for an enabled rule
EnabledRuleStep ==
    /\ pc = "running"
    /\ idx' = idx + 1
    /\ idx <= Len(alerts)
    /\ alerts[idx].enabled

\* C24: for an enabled rule whose spot has an empty forecast list the loop
\* iteration ends as "no forecasts": no statistic changes (matched, notified,
\* errors and the discard counters included), sendMessage is not called and
\* no window is stored; and a sample whose date cannot be parsed changes
\* nothing: statistics, window, calls and delivery are those of the same
\* iteration over the forecasts without that sample.
C24_EmptyAndUnparseableAreSkipped ==
    [][EnabledRuleStep =>
         /\ env.fc[alerts[idx].spot] = << >> =>
               /\ outcome'.last = "empty"
               /\ stats' = stats
               /\ calls'.last.send = 0
               /\ ~ outcome'.delivered
               /\ lastSentWindows' = lastSentWindows
         /\ stats' = EvalDated(alerts[idx], outcome'.fault).st
         /\ calls'.last = EvalDated(alerts[idx], outcome'.fault).calls
         /\ outcome'.window = EvalDated(alerts[idx], outcome'.fault).window
         /\ outcome'.delivered = EvalDated(alerts[idx], outcome'.fault).delivered
         /\ outcome'.last = EvalDated(alerts[idx], outcome'.fault).outcome]_vars

\* a rule is notified in a run whose forecasts start with a sample without a
\* date, after a run that served an empty list for the spot and sent nothing
C24_Witness ==
    /\ Evaluated
    /\ clock = 2
    /\ prevRun # << >>
    /\ prevRun[1].calls.fetch = 1
    /\ prevRun[1].calls.light = 0
    /\ prevRun[1].errors = 0
    /\ Len(env.fc[LastAlert.spot]) > 0
    /\ env.fc[LastAlert.spot][1].date = << >>
    /\ stats.errors = 0
    /\ stats.discardReasons.light = 0
    /\ outcome.delivered

-----------------------------------------------------------------------------
(* The statistics a run returns *)

\* The rules of the run in progress for which sendMessage has returned:
\* setLastWindow (line 716) is called exactly when sendMessage (line 715)
\* returned.
DeliveredInRun == calls.run.setLast

\* C25 as stated: the notified statistic a run returns is the number of rules
\* for which sendMessage completed during the run.
C25_NotifiedCountsDeliveries ==
    (pc = "idle" /\ clock > 0) => stats.notified = DeliveredInRun

\* a sample of the rule's spot passes the daylight predicate and matchDetail
HasRawMatch(alert) ==
    \E i \in 1 .. Len(env.fc[alert.spot]) :
        /\ env.fc[alert.spot][i].date # << >>
        /\ IsWithinAlertWindow(env, alert.spot, env.fc[alert.spot][i].date[1])
        /\ MatchDetail(alert, env.fc[alert.spot][i]).pass

\* the enabled rules among the first n of the list that have such a sample
RawMatches(n) ==
    Cardinality({ i \in 1 .. n : alerts[i].enabled /\ HasRawMatch(alerts[i]) })

\* C26 as stated: matched is the number of enabled rules, among those the
\* run has evaluated, with a sample that passes the daylight predicate and
\* the threshold matcher.
C26_MatchedCountsRawMatches ==
    (clock > 0 /\ idx >= 1) => stats.matched = RawMatches(idx - 1)

\* fetchForecasts or isWithinAlertWindow threw for the rule
LoopThrew(fault) == fault.point \in {"fetch", "light"}

\* C26: a loop iteration increments matched, by one, exactly when the rule is
\* enabled, has a sample that passes the daylight predicate and the threshold
\* matcher, and neither fetchForecasts nor isWithinAlertWindow threw for it;
\* whatever the tide filter, the minimum run length, the dedup decision or a
\* later throw make of the rule.
C26_MatchedCountsCompletedRawMatches ==
    [][(pc = "running" /\ idx' = idx + 1 /\ idx <= Len(alerts)) =>
         stats'.matched =
             IF /\ alerts[idx].enabled
                /\ HasRawMatch(alerts[idx])
                /\ ~ LoopThrew(outcome'.fault)
             THEN stats.matched + 1
             ELSE stats.matched]_vars

\* the rule is counted as matched although its one matching hour makes no
\* window, or its window was suppressed, or a later call threw
C26_Witness ==
    /\ Evaluated
    /\ stats.matched = 2
    /\ stats.notified = 0
    /\ outcome.last \in {"nowindow", "suppressed"}
    /\ stats.errors = 1

-----------------------------------------------------------------------------
(* core/scheduler.ts: the hourly scheduler over the hours of a day *)

\* bounds of the timed scheduler: timeouts armed by one scheduler, and the
\* most a timeout fires after it is due
MaxHourlyTimers == 4
MaxLateMs == 58000

\* what the event loop adds to a timeout's delay, in ms
Lateness == { 0, 1, MaxLateMs }

\* how long run() takes to settle: at once, 200 ms, 61 minutes
RunDurations == { 0, 200, 61 * MINUTE_MS }

\* the instants startHourlySchedulerAtMinute is called at: 00:03:00.000,
\* 00:09:59.999 and 00:10:00.500 UTC
HourlyStarts ==
    { 3 * MINUTE_MS, 10 * MINUTE_MS - 1, 10 * MINUTE_MS + 500 }

HourlyMinutes == { 0, SchedulerMinute, 59 }

\* schedule() (lines 34-45) with now() the wall clock
ScheduleAt(ts, now) ==
    IF ScheduleReturnsEarly(stopped)
    THEN timers' = ts /\ timer' = timer
    ELSE /\ timers' = SetTimeout(ts, MsUntilNextMadridHourMinute(
                                         call.day, now, call.minute),
                                 now)
         /\ timer' = Len(ts) + 1

\* startHourlySchedulerAtMinute(run, minute) has returned its handle
InitHourly ==
    /\ call \in { [fn |-> "startHourlySchedulerAtMinute", day |-> d,
                   minute |-> m] : d \in MadridDays, m \in HourlyMinutes }
    /\ RunnerAtRest
    /\ wall \in HourlyStarts
    /\ timers = SetTimeout(<< >>, MsUntilNextMadridHourMinute(
                                      call.day, wall, call.minute),
                           wall)
    /\ timer = 1
    /\ stopped = FALSE
    /\ runs = [startup |-> 0, scheduler |-> 0, runnow |-> 0]
    /\ tally = [started |-> 0, stops |-> 0, commands |-> 0, escaped |-> 0]
    /\ begun = << >>
    /\ tasks = << >>
    /\ notificationLog = << >>
    /\ recorded = << >>

\* the instant a timeout is due
DueMs(t) == t.at + t.delay

\* a pending timeout fires, at its due instant or late, and its callback
\* calls run() unless stopped (lines 37-40)
HourlyFires ==
    /\ Len(timers) < MaxHourlyTimers
    /\ \E i \in PendingTimers, late \in Lateness :
          /\ wall' = DueMs(timers[i]) + late
          /\ timers' = MarkFired(timers, i)
          /\ IF stopped
             THEN UNCHANGED << runs, tally, begun >>
             ELSE /\ runs' = [runs EXCEPT !.scheduler = @ + 1]
                  /\ tally' = [tally EXCEPT !.started = @ + 1]
                  /\ begun' = Append(begun, wall')
    /\ UNCHANGED << call, timer, stopped, tasks >>
    /\ UNCHANGED logVars
    /\ UNCHANGED runnerVars

\* the awaited run() settles and the finally block calls schedule()
\* (lines 41-43)
HourlySettles ==
    /\ runs.scheduler > 0
    /\ \E d \in RunDurations :
          /\ wall' = wall + d
          /\ ScheduleAt(timers, wall + d)
    /\ runs' = [runs EXCEPT !.scheduler = @ - 1]
    /\ UNCHANGED << call, stopped, tally, begun, tasks >>
    /\ UNCHANGED logVars
    /\ UNCHANGED runnerVars

NextHourly ==
    \/ HourlyFires
    \/ HourlySettles
    \/ Stop

SpecHourly == InitHourly /\ [][NextHourly]_vars

HourlyRunning == call.fn = "startHourlySchedulerAtMinute"

\* the civil hour of Europe/Madrid an instant lies in, counted from 00:00
\* civil of the day: the hour on the clock
CivilHour(day, ms) == (ms + MadridOffsetMs(day, ms)) \div HOUR_MS

\* the hour of absolute time an instant lies in
UtcHour(ms) == ms \div HOUR_MS

BeginsAtMinute ==
    \A i \in 1 .. Len(begun) :
        MadridParts(call.day, begun[i]).minute = call.minute

\* C27 as stated: every run() of the scheduler begins in a civil minute of
\* Europe/Madrid whose minute-of-hour is the target minute, and no two of
\* them begin in the same civil hour.
C27_OncePerCivilHour ==
    HourlyRunning =>
        /\ BeginsAtMinute
        /\ \A i, j \in 1 .. Len(begun) :
              i < j => CivilHour(call.day, begun[i]) # CivilHour(call.day, begun[j])

\* C27: with timeouts that fire at most MaxLateMs after they are due, every
\* run() of the scheduler begins in a civil minute of Europe/Madrid whose
\* minute-of-hour is the target minute, and no two of them begin in the
\* same hour of absolute time: each begins in a later hour than the one
\* before.
C27_OncePerHour ==
    HourlyRunning =>
        /\ BeginsAtMinute
        /\ \A i, j \in 1 .. Len(begun) :
              i < j => UtcHour(begun[i]) < UtcHour(begun[j])

\* on the spring-forward day a run begins at 01:10 civil and the next one,
\* an hour later, at 03:10 civil; the first timeout was armed one
\* millisecond before 01:10 and fired late
C27_Witness ==
    /\ HourlyRunning
    /\ call.day.name = "spring-forward"
    /\ call.minute = SchedulerMinute
    /\ Len(begun) = 2
    /\ timers[1].delay = SECOND_MS
    /\ begun[1] > 10 * MINUTE_MS + SECOND_MS
    /\ MadridParts(call.day, begun[1]).hour = 1
    /\ MadridParts(call.day, begun[2]).hour = 3

-----------------------------------------------------------------------------
(* bot-helpers: the bounded caches of getSunsetDate and getTideEventsForDate *)

\* const MAX_CACHE_ENTRIES = 100
MAX_CACHE_ENTRIES == 100

\* bounds of the cache model: the keys asked for (spot:day, port:day), the
\* lookups whose fetch is in flight at one time
MaxCacheKeys == 103
MaxLookups == 2

CacheNames == {"sunsetCache", "tideDayCache"}

CacheKeys == 1 .. MaxCacheKeys

\* (a cache cleared only once it is over its capacity)
BoundedSetLate(cache, key) ==
    (IF Cardinality(cache) > MAX_CACHE_ENTRIES THEN {} ELSE cache) \cup {key}
\* boundedSet(cache, key, value): the keys the Map holds afterwards
BoundedSet(cache, key) ==
    (IF Cardinality(cache) >= MAX_CACHE_ENTRIES THEN {} ELSE cache) \cup {key}

InFlight(c) ==
    { lookups[i].key : i \in { j \in DOMAIN lookups : lookups[j].cache = c } }

FirstOf(keys) == CHOOSE k \in keys : \A j \in keys : k <= j

OneOf(keys) == IF keys = {} THEN {} ELSE { FirstOf(keys) }

\* The keys a lookup asks a cache for.  Keys differ only by name, so one
\* cached key and the first key not cached stand for all of them; while a
\* fetch is in flight, the lookups are for a cached key or, again, for the
\* key in flight.
AskedKeys(c) ==
    OneOf(caches[c])
    \cup InFlight(c)
    \cup (IF InFlight(c) = {} THEN OneOf(CacheKeys \ caches[c]) ELSE {})

RemoveAt(s, i) == SubSeq(s, 1, i - 1) \o SubSeq(s, i + 1, Len(s))

\* the cache of the function the lookups call
CacheOf(fn) ==
    IF fn = "getSunsetDate" THEN "sunsetCache" ELSE "tideDayCache"

\* the process has started: both caches are empty; the lookups of a
\* behaviour are those of one of the two functions
InitCache ==
    /\ call \in { [fn |-> "getSunsetDate"], [fn |-> "getTideEventsForDate"] }
    /\ RunnerAtRest
    /\ NoScheduler

\* getSunsetDate / getTideEventsForDate up to the await of fetch: a cached
\* value is returned, a miss starts a fetch (part_012 lines 156-162, 194-201)
Lookup ==
    /\ \E key \in AskedKeys(CacheOf(call.fn)) :
          IF key \in caches[CacheOf(call.fn)]
          THEN UNCHANGED lookups
          ELSE /\ Len(lookups) < MaxLookups
               /\ lookups' = Append(lookups, [cache |-> CacheOf(call.fn),
                                              key |-> key])
    /\ UNCHANGED << call, alerts, env, lastSentWindows, lastNotifiedAt, pc, idx,
                    forecastsBySpot, stats, calls, outcome, clock, prevRun,
                    runStart, sentLog, caches >>
    /\ UNCHANGED timerVars

\* the fetch of a lookup has returned: a response that is not ok, or a
\* sunset that is missing or not a date, is returned and not cached; anything
\* else goes through boundedSet (lines 163-173, 202-222)
FetchReturns ==
    /\ \E i \in DOMAIN lookups, cacheable \in BOOLEAN :
          /\ lookups' = RemoveAt(lookups, i)
          /\ caches' = IF cacheable
                        THEN [caches EXCEPT
                                 ![lookups[i].cache] =
                                     BoundedSet(@, lookups[i].key)]
                        ELSE caches
    /\ UNCHANGED << call, alerts, env, lastSentWindows, lastNotifiedAt, pc, idx,
                    forecastsBySpot, stats, calls, outcome, clock, prevRun,
                    runStart, sentLog >>
    /\ UNCHANGED timerVars

NextCache ==
    \/ Lookup
    \/ FetchReturns

SpecCache == InitCache /\ [][NextCache]_vars

\* a step that inserts key into cache c
Inserts(c, key) ==
    \E i \in DOMAIN lookups :
        /\ lookups[i] = [cache |-> c, key |-> key]
        /\ lookups' = RemoveAt(lookups, i)
        /\ caches'[c] # caches[c] \/ key \in caches[c]

\* C28: neither cache ever holds more than MAX_CACHE_ENTRIES keys, and an
\* insert that finds its cache with MAX_CACHE_ENTRIES keys leaves it with the
\* inserted key and no other.
C28_CacheIsBounded ==
    /\ [](\A c \in CacheNames : Cardinality(caches[c]) <= MAX_CACHE_ENTRIES)
    /\ [][\A c \in CacheNames :
             (/\ Cardinality(caches[c]) = MAX_CACHE_ENTRIES
              /\ caches'[c] # caches[c])
             => \E key \in CacheKeys : Inserts(c, key) /\ caches'[c] = {key}]_vars

\* the tide cache was full and the next insert left it with one key
C28_Witness ==
    /\ caches["tideDayCache"] = { MAX_CACHE_ENTRIES + 1 }
    /\ lookups = << >>

-----------------------------------------------------------------------------
(* The order of the effects of a notification *)

\* the calls of lines 684-727 in the order of the source
NotifySteps == << "match", "getLast", "send", "setLast", "touch", "sent" >>

\* a loop iteration of runChecksWithDeps
RuleStep == pc = "running" /\ idx' = idx + 1 /\ idx <= Len(alerts)

\* C29: in a loop iteration the calls are made in the order
\* recordNotificationMatch, getLastWindow, sendMessage, setLastWindow,
\* touchAlertNotified, recordNotificationSent, and notified is incremented
\* last: a call is made only if every earlier one was made; a call that
\* throws is the last one made, its effect and every later effect are
\* absent (the stored window and lastNotifiedAt are written only by a
\* setLastWindow and a touchAlertNotified that returned) and notified is not
\* incremented; notified is incremented exactly when all six calls returned,
\* and then the window is stored and lastNotifiedAt is set.
C29_EffectsInOrder ==
    [][RuleStep =>
         /\ \A i, j \in DOMAIN NotifySteps :
               (i < j /\ calls'.last[NotifySteps[j]] = 1)
               => calls'.last[NotifySteps[i]] = 1
         /\ \A k \in DOMAIN NotifySteps :
               outcome'.fault.point = NotifySteps[k] =>
                  /\ calls'.last[NotifySteps[k]] = 1
                  /\ \A j \in DOMAIN NotifySteps :
                        j > k => calls'.last[NotifySteps[j]] = 0
                  /\ stats'.notified = stats.notified
         /\ outcome'.delivered
            <=> (calls'.last.send = 1 /\ outcome'.fault.point # "send")
         /\ lastSentWindows' # lastSentWindows
            => (calls'.last.setLast = 1 /\ outcome'.fault.point # "setLast")
         /\ lastNotifiedAt' # lastNotifiedAt
            => (calls'.last.touch = 1 /\ outcome'.fault.point # "touch")
         /\ stats'.notified # stats.notified
            => /\ stats'.notified = stats.notified + 1
               /\ \A k \in DOMAIN NotifySteps : calls'.last[NotifySteps[k]] = 1
               /\ outcome'.fault = NoFault
               /\ lastSentWindows'[DedupeKey(alerts[idx])] = outcome'.window
               /\ lastNotifiedAt'[alerts[idx].id] = << clock >>
         /\ (calls'.last.sent = 1 /\ outcome'.fault = NoFault)
            => stats'.notified = stats.notified + 1]_vars

\* the first rule was notified; for the second the message went out and the
\* window was stored, touchAlertNotified threw, and recordNotificationSent
\* was not called
C29_Witness ==
    /\ Evaluated
    /\ idx = 3
    /\ stats.notified = 1
    /\ stats.errors = 1
    /\ outcome.fault.point = "touch"
    /\ outcome.delivered
    /\ calls.last.touch = 1
    /\ calls.last.sent = 0
    /\ lastSentWindows[DedupeKey(LastAlert)] = outcome.window
    /\ lastNotifiedAt[LastAlert.id] = << >>

-----------------------------------------------------------------------------
(* A send that failed is tried again *)

\* the windows for which sendMessage threw, in the run before, for the rule
\* the last loop iteration evaluated, when this run sees the same forecasts
FailedBefore ==
    IF prevRun # << >> /\ prevRun[1].same
    THEN { p[2] : p \in { q \in prevRun[1].threw : q[1] = LastAlert.id } }
    ELSE { }

\* the loop iteration found the window w and called sendMessage for it
TriedAgain(w) == outcome.window = << w >> /\ calls.last.send = 1

\* C30 as stated: a window for which sendMessage threw in the run before is
\* found again by a run over the same forecasts, passes the dedup decision
\* and is handed to sendMessage again.
C30_FailedSendIsRetried ==
    Evaluated => \A w \in FailedBefore : TriedAgain(w)

\* C30: for a rule whose dedupe key no other rule of the list shares, a
\* window for which sendMessage threw in the run before is found again by a
\* run over the same forecasts, passes the dedup decision and is handed to
\* sendMessage again.
C30_FailedSendIsRetriedForOwnKey ==
    (Evaluated /\ ~ SharesKey(idx - 1)) =>
        \A w \in FailedBefore : TriedAgain(w)

\* the second of two rules with different keys is notified in the run after
\* the one in which sendMessage threw for it
C30_Witness ==
    /\ Evaluated
    /\ idx = 3
    /\ ~ SharesKey(2)
    /\ FailedBefore # {}
    /\ outcome.window # << >>
    /\ outcome.window[1] \in FailedBefore
    /\ outcome.delivered
    /\ outcome.last = "sent"

-----------------------------------------------------------------------------
(* The histogram of discards *)

\* the dated samples of the spot, in the order of the series
DatedOf(alert) == Dated(env.fc[alert.spot])

\* the samples for which isWithinAlertWindow returned in a loop iteration
\* that made `made` calls of it, the last of which threw if `threw`
Judged(alert, made, threw) ==
    SubSeq(DatedOf(alert), 1, IF threw THEN made - 1 ELSE made)

CountOf(s, Test(_)) == Cardinality({ i \in DOMAIN s : Test(s[i]) })

InLight(alert, f) == IsWithinAlertWindow(env, alert.spot, f.date[1])

\* what a loop iteration adds to a counter
Added(counter) ==
    IF counter = "passAll" THEN stats'.passAll - stats.passAll
    ELSE stats'.discardReasons[counter] - stats.discardReasons[counter]

\* the counters of the samples js judged for alert
HistogramOf(alert, js) ==
    /\ Added("light") = CountOf(js, LAMBDA f : ~ InLight(alert, f))
    /\ Added("passAll") =
          CountOf(js, LAMBDA f : InLight(alert, f) /\ MatchDetail(alert, f).pass)
    /\ Added("wave") =
          CountOf(js, LAMBDA f : InLight(alert, f) /\ ~ MatchDetail(alert, f).wave)
    /\ Added("period") =
          CountOf(js, LAMBDA f : InLight(alert, f) /\ ~ MatchDetail(alert, f).period)
    /\ Added("energy") =
          CountOf(js, LAMBDA f : InLight(alert, f) /\ ~ MatchDetail(alert, f).energy)
    /\ Added("wind") =
          CountOf(js, LAMBDA f : InLight(alert, f) /\ ~ MatchDetail(alert, f).wind)
    /\ \A i \in DOMAIN js :
          (InLight(alert, js[i]) /\ ~ MatchDetail(alert, js[i]).pass)
          => \/ ~ MatchDetail(alert, js[i]).wave
             \/ ~ MatchDetail(alert, js[i]).period
             \/ ~ MatchDetail(alert, js[i]).energy
             \/ ~ MatchDetail(alert, js[i]).wind
    /\ Added("tide") >= 0
    /\ Added("tide") <= Added("passAll")

\* C31: a loop iteration for an enabled rule counts each dated sample for
\* which isWithinAlertWindow returned exactly once: in light when it is in
\* the dark, and then in no threshold counter; in passAll when it is in
\* daylight and passes matchDetail; otherwise in each of wave, period, energy
\* and wind whose test it fails, at least one.  The tide discards of the
\* iteration are at most its passAll; a disabled rule counts nothing; and in
\* every state discardReasons.tide <= passAll.
C31_SamplesCountedOnce ==
    /\ [](stats.discardReasons.tide <= stats.passAll)
    /\ [][RuleStep =>
             IF alerts[idx].enabled
             THEN HistogramOf(alerts[idx],
                              Judged(alerts[idx], calls'.last.light,
                                     outcome'.fault.point = "light"))
             ELSE stats' = stats]_vars

\* two rules were evaluated over a series whose first sample is in the dark
\* and of low energy: it is counted twice for the light and never for the
\* energy, and the sample after it passes for both rules
C31_Witness ==
    /\ Evaluated
    /\ idx = 3
    /\ env.dark # {}
    /\ env.fc[LastAlert.spot][1].energy = LowEnergy
    /\ stats.discardReasons.light = 2
    /\ stats.discardReasons.energy = 0
    /\ stats.passAll = 2
    /\ stats.errors = 0

\* C32: the statistics of a run, while it runs and when it returns, have
\* totalAlerts equal to the number of rules passed in, the disabled ones
\* included, notified <= matched <= totalAlerts, and notified + errors <=
\* totalAlerts: no rule is counted as notified and as an error.
C32_StatisticsAreConsistent ==
    /\ stats.totalAlerts = Len(alerts)
    /\ stats.notified <= stats.matched
    /\ stats.matched <= stats.totalAlerts
    /\ stats.notified + stats.errors <= stats.totalAlerts
    /\ stats.notified + stats.errors <= calls.rules

\* a run over two rules has returned: both matched, one was notified, the
\* other ended in the catch block
C32_Witness ==
    /\ pc = "idle"
    /\ clock > 0
    /\ stats.totalAlerts = 2
    /\ stats.matched = 2
    /\ stats.notified = 1
    /\ stats.errors = 1

-----------------------------------------------------------------------------
(* The shape of a window *)

\* a window of firstConsecutiveWindow over the list items
WellFormedWindow(w, items) ==
    /\ Len(w.items) >= 1
    /\ \A i \in 1 .. Len(w.items) - 1 : OneHourApart(w.items, i)
    /\ w.hours = Len(w.items)
    /\ w.start = w.items[1]
    /\ w.end = w.items[Len(w.items)]
    /\ \A i \in DOMAIN w.items : \E j \in DOMAIN items : w.items[i] = items[j]

\* C33: a call of firstConsecutiveWindow leaves the list it was given as it
\* was, and a window it returns is well formed: its items are in ascending
\* order of time, each exactly one hour after the one before, hours is their
\* number, start is the first and end the last of them, and each of them is
\* an element of the list.
C33_WindowIsWellFormed ==
    [][(call.fn = "firstConsecutiveWindow" /\ call.result = << >>) =>
         /\ call'.items = call.items
         /\ call'.result[1] # << >>
            => WellFormedWindow(call'.result[1][1], call.items)]_vars

\* three candidates given newest first: the list is as it was and the window
\* holds all three, oldest first
C33_Witness ==
    /\ WindowCalled
    /\ Len(call.items) = 3
    /\ ~ TimeSorted(call.items)
    /\ call.result[1] # << >>
    /\ call.result[1][1].hours = 3
    /\ call.result[1][1].start = call.items[3]
    /\ call.result[1][1].end = call.items[1]

-----------------------------------------------------------------------------
(* The window that is compared and stored *)

\* the windows firstConsecutiveWindow has returned in this state
WindowsFound ==
    IF WindowCalled /\ call.result[1] # << >> THEN { call.result[1][1] }
    ELSE { }

\* C34: the window the runner builds from a result of firstConsecutiveWindow,
\* which is the one it compares with the last sent window and stores, starts
\* at the time of the run's first sample and ends one hour after the time of
\* its last sample; its length is hours times one hour, and is positive.
C34_WindowIsHalfOpen ==
    \A w \in WindowsFound :
        /\ NewWindowOf(w).startMs = ItemMs(w.items[1])
        /\ NewWindowOf(w).endMs = ItemMs(w.items[Len(w.items)]) + HOUR
        /\ NewWindowOf(w).endMs - NewWindowOf(w).startMs = w.hours * HOUR
        /\ NewWindowOf(w).endMs > NewWindowOf(w).startMs

\* a run of one sample gives a window of one hour, a run of three a window
\* of three hours
C34_Witness ==
    \E w \in WindowsFound :
        /\ w.hours \in { 1, 3 }
        /\ call.minHours = w.hours
        /\ Len(call.items) = 3
        /\ NewWindowOf(w).endMs = NewWindowOf(w).startMs + w.hours * HOUR

-----------------------------------------------------------------------------
(* Candidates of one instant inside a chain of hours *)

MaxChainItems == 4

ChainTimes == { SlotMs(1), SlotMs(2), SlotMs(3) }

ChainCandidates ==
    { MkCandidate(t, c) : t \in ChainTimes, c \in { "mid", "high" } }

InitChain ==
    /\ call \in { [fn |-> "firstConsecutiveWindow", items |-> l,
                   minHours |-> h, result |-> << >>] :
                     l \in UNION { [1 .. n -> ChainCandidates] :
                                     n \in 0 .. MaxChainItems },
                     h \in 0 .. MaxMinHours }
    /\ RunnerAtRest
    /\ NoScheduler

SpecChain == InitChain /\ [][CallFirstConsecutiveWindow]_vars

\* the instants of the candidates
TimesOf(items) == { ItemMs(items[i]) : i \in DOMAIN items }

\* the number of candidates of the instant t
CountAt(items, t) == Cardinality({ i \in DOMAIN items : ItemMs(items[i]) = t })

\* t, t + 1 h, ..., t + (m - 1) h are instants of the candidates
ChainFrom(items, t, m) ==
    \A k \in 0 .. m - 1 : t + k * HOUR \in TimesOf(items)

\* ... and each instant strictly inside the chain has one candidate only
UnbrokenChainFrom(items, t, m) ==
    /\ ChainFrom(items, t, m)
    /\ \A k \in 1 .. m - 2 : CountAt(items, t + k * HOUR) = 1

-----------------------------------------------------------------------------
(* index.ts: two runs of runChecks in progress at once.  Each run is a chain
   of promise continuations; what lies between two awaits runs without
   interruption, and at an await the other run may go on.  Each run has its
   own memo and statistics; lastSentWindows (index.ts line 65) and the rules
   are shared. *)

RunNames == { "startup", "runnow" }

OverlapEnvs == { e \in EnvSet : e.dark = {} }

\* a run at the top of the loop body for the rule at position i
AtRule(i) == [pc |-> "decide", idx |-> i, window |-> << >>, sent |-> {}]

\* index.ts lines 1000-1011: the startup run is in progress, the second run
\* (the scheduler's, or the one of /runnow) has not begun
InitOverlap ==
    /\ call = NoCall
    /\ alerts \in RerunAlertLists
    /\ env \in OverlapEnvs
    /\ lastSentWindows = [k \in KeysOf(alerts) |-> << >>]
    /\ lastNotifiedAt = [i \in IdsOf(alerts) |-> << >>]
    /\ pc = "idle"
    /\ idx = 0
    /\ forecastsBySpot = [s \in Spots |-> << >>]
    /\ stats = ZeroStats(alerts)
    /\ calls = [last |-> ZeroCalls, run |-> ZeroCalls,
                fetches |-> [s \in Spots |-> 0], rules |-> 0, threw |-> {}]
    /\ outcome = [last |-> "none", window |-> << >>, delivered |-> FALSE,
                  fault |-> NoFault]
    /\ clock = 0
    /\ prevRun = << >>
    /\ runStart = lastSentWindows
    /\ sentLog = [k \in KeysOf(alerts) |-> << >>]
    /\ caches = [c \in {"sunsetCache", "tideDayCache"} |-> {}]
    /\ lookups = << >>
    /\ timers = << >>
    /\ timer = 0
    /\ stopped = FALSE
    /\ runs = [startup |-> 1, scheduler |-> 0, runnow |-> 0]
    /\ tally = [started |-> 0, stops |-> 0, commands |-> 0, escaped |-> 0]
    /\ wall = 0
    /\ begun = << >>
    /\ notificationLog = << >>
    /\ recorded = << >>
    /\ tasks = [r \in RunNames |->
                  IF r = "startup" THEN AtRule(1)
                  ELSE [AtRule(1) EXCEPT !.pc = "idle"]]

OverlapFrame ==
    UNCHANGED << call, alerts, env, pc, idx, forecastsBySpot, stats, calls,
                 outcome, clock, prevRun, runStart, caches, lookups, timers,
                 timer, stopped, runs, tally, wall, begun, notificationLog,
                 recorded >>

\* index.ts lines 813 and 1002: runChecks() is called while the startup run
\* may still be in progress
BeginRun(r) ==
    /\ tasks[r].pc = "idle"
    /\ tasks' = [tasks EXCEPT ![r] = AtRule(1)]
    /\ UNCHANGED << lastSentWindows, lastNotifiedAt, sentLog >>
    /\ OverlapFrame

\* what the loop body decides for the rule from the forecasts and from the
\* last-sent window it reads at line 695
Decision(alert) ==
    EvalAlert(alert, env, [Ctx EXCEPT !.st = ZeroStats(alerts)],
              MinConsecutiveHours, clock, NoFault)

\* lines 611-701: from the top of the loop body to the await of
\* getTideEventsForDate; the awaits on the way (fetchForecasts,
\* isWithinAlertWindow, buildCandidateMatches) touch nothing shared, and
\* getLastWindow and shouldSendWindow run in one piece after the last of them
Decide(r) ==
    /\ tasks[r].pc = "decide"
    /\ tasks' = [tasks EXCEPT ![r] =
                    IF tasks[r].idx > Len(alerts) THEN [@ EXCEPT !.pc = "done"]
                    ELSE IF Decision(alerts[tasks[r].idx]).outcome = "sent"
                    THEN [@ EXCEPT !.pc = "tide",
                             !.window = Decision(alerts[tasks[r].idx]).window]
                    ELSE [@ EXCEPT !.idx = @ + 1]]
    /\ UNCHANGED << lastSentWindows, lastNotifiedAt, sentLog >>
    /\ OverlapFrame

\* lines 701-715: getTideEventsForDate has returned, the message is built
\* and handed to sendMessage, which is awaited
TideReturns(r) ==
    /\ tasks[r].pc = "tide"
    /\ tasks' = [tasks EXCEPT ![r].pc = "send"]
    /\ UNCHANGED << lastSentWindows, lastNotifiedAt, sentLog >>
    /\ OverlapFrame

\* lines 715-728: sendMessage has returned; setLastWindow, touchAlertNotified
\* and the next iteration up to its first await
SendReturns(r) ==
    /\ tasks[r].pc = "send"
    /\ LET alert == alerts[tasks[r].idx]
           window == tasks[r].window[1]
       IN  /\ lastSentWindows' =
                  [lastSentWindows EXCEPT ![DedupeKey(alert)] = << window >>]
           /\ lastNotifiedAt' = [lastNotifiedAt EXCEPT ![alert.id] = << clock >>]
           /\ sentLog' = [sentLog EXCEPT ![DedupeKey(alert)] = Append(@, window)]
           /\ tasks' = [tasks EXCEPT
                           ![r] = [AtRule(@.idx + 1) EXCEPT
                                      !.sent = tasks[r].sent
                                               \cup { << alert.id, window >> }]]
    /\ OverlapFrame

NextOverlap ==
    \E r \in RunNames :
        \/ BeginRun(r)
        \/ Decide(r)
        \/ TideReturns(r)
        \/ SendReturns(r)

SpecOverlap == InitOverlap /\ [][NextOverlap]_vars

\* C36: whatever the interleaving of two runs of runChecks over the same
\* rules and the same last-sent-window store, no window is delivered for a
\* rule by both runs.
C36_WindowSentOnce ==
    tasks["startup"].sent \cap tasks["runnow"].sent = {}

-----------------------------------------------------------------------------
(* infra/storage.ts: the rules as listAllAlerts returns them, and their
   dedupe keys *)

\* envelope(ranges)
Envelope(ranges) ==
    [min |-> SeqMin([i \in 1 .. Len(ranges) |-> ranges[i].min]),
     max |-> SeqMax([i \in 1 .. Len(ranges) |-> ranges[i].max])]

\* envelopeWind(ranges): an interval across north counts as 0..max, min..360
EnvelopeWind(ranges) ==
    LET boundaries ==
            UNION { IF ranges[i].min <= ranges[i].max
                    THEN { ranges[i].min, ranges[i].max }
                    ELSE { 0, ranges[i].max, ranges[i].min, FullCircle } :
                    i \in 1 .. Len(ranges) }
    IN  [min |-> CHOOSE x \in boundaries : \A y \in boundaries : x <= y,
         max |-> CHOOSE x \in boundaries : \A y \in boundaries : x >= y]

\* lines 58-66: windRanges, taken from the legacy windMin / windMax if absent
WindRangesOf(raw) ==
    IF Len(raw.rule.windRanges) = 0 /\ raw.windMin # << >> /\ raw.windMax # << >>
    THEN << [min |-> raw.windMin[1], max |-> raw.windMax[1]] >>
    ELSE raw.rule.windRanges

\* migrateAlert(rawAlert): the rule readDb hands out for a stored record; an
\* absent list is << >>
MigrateAlert(raw) ==
    [raw.rule EXCEPT
        !.waveMin = IF Len(raw.rule.waveRanges) > 0
                    THEN Envelope(raw.rule.waveRanges).min ELSE @,
        !.waveMax = IF Len(raw.rule.waveRanges) > 0
                    THEN Envelope(raw.rule.waveRanges).max ELSE @,
        !.periodMin = IF Len(raw.rule.periodRanges) > 0
                      THEN Envelope(raw.rule.periodRanges).min ELSE @,
        !.periodMax = IF Len(raw.rule.periodRanges) > 0
                      THEN Envelope(raw.rule.periodRanges).max ELSE @,
        !.windRanges = IF Len(WindRangesOf(raw)) > 0
                       THEN << EnvelopeWind(WindRangesOf(raw)) >>
                       ELSE WindRangesOf(raw),
        !.tidePortId = IF @ = << >> THEN << DefaultPort >> ELSE @,
        !.tidePreference = IF @ = << >> THEN << "any" >> ELSE @,
        !.waveRanges = << >>,
        !.periodRanges = << >>]

\* records of data/alerts.json of one subscriber and one spot
StoredRules(id) ==
    { [rule |-> [MkAlert(id, 123, "sopelana", TRUE, tide) EXCEPT
                    !.waveRanges = wave, !.waveMin = waveMin,
                    !.periodRanges = period, !.energyMin = energyMin,
                    !.windRanges = wind, !.tidePortId = port],
       windMin |-> legacy, windMax |-> << 1800 >>] :
        wave \in { << >>, << [min |-> 5, max |-> 10], [min |-> 12, max |-> 22] >> },
        waveMin \in { 0, 5 },
        period \in { << >>, << [min |-> 10, max |-> 13] >> },
        energyMin \in { 800, 900 },
        wind \in { << >>, << [min |-> 3150, max |-> 450] >> },
        legacy \in { << >>, << 900 >> },
        tide \in { << >>, << "high" >> },
        port \in { << >>, << "5" >> } }

InitKeys ==
    /\ call \in { [fn |-> "dedupeKey", a |-> a, b |-> b, result |-> << >>] :
                     a \in StoredRules("a1"), b \in StoredRules("a2") }
    /\ RunnerAtRest
    /\ NoScheduler

\* listAllAlerts() hands out the two rules and the runner builds their
\* dedupe keys (check-runner line 694)
CallDedupeKey ==
    /\ call.fn = "dedupeKey"
    /\ call.result = << >>
    /\ call' = [call EXCEPT
                   !.result = << [a |-> MigrateAlert(call.a),
                                  b |-> MigrateAlert(call.b),
                                  keyA |-> DedupeKey(MigrateAlert(call.a)),
                                  keyB |-> DedupeKey(MigrateAlert(call.b))] >>]
    /\ UNCHANGED runnerVars
    /\ UNCHANGED timerVars

SpecKeys == InitKeys /\ [][CallDedupeKey]_vars

\* the thresholds matchDetail and the tide filter apply for a rule
Thresholds(alert) ==
    [wave |-> IF Len(alert.waveRanges) > 0 THEN alert.waveRanges
              ELSE << [min |-> alert.waveMin, max |-> alert.waveMax] >>,
     period |-> IF Len(alert.periodRanges) > 0 THEN alert.periodRanges
                ELSE << [min |-> alert.periodMin, max |-> alert.periodMax] >>,
     energy |-> [min |-> alert.energyMin, max |-> alert.energyMax],
     wind |-> alert.windRanges,
     tidePreference |-> alert.tidePreference,
     tidePort |-> TidePortOf(alert)]

\* C37: two rules of one subscriber and one spot, as the runner gets them,
\* that differ in a filter threshold (wave height, period, energy, wind
\* interval, tide preference or tide port) have different dedupe keys.
C37_DifferentRulesDifferentKeys ==
    (call.fn = "dedupeKey" /\ call.result # << >>
       /\ Thresholds(call.result[1].a) # Thresholds(call.result[1].b))
    => call.result[1].keyA # call.result[1].keyB

-----------------------------------------------------------------------------
(* core/scheduler.ts: the scheduler left running for ever.  Only the latest
   timeout is kept (every older one has fired or was cleared) and the calls
   of run() are counted modulo RunWrap, so that the chain of timeouts can go
   on without end in a finite state space. *)

RunWrap == 8

\* how a call of run() ends: it throws before its first await, or it
\* returns a promise that is later resolved or rejected
RunEndings == { "throws", "resolved", "rejected" }

\* (schedule() after the await inside the try block: try { await run();
\* schedule() })
RearmsOnSuccess(how) == how = "resolved"
\* lines 39-43: try { await run() } finally { schedule() }
Rearms(how) == how \in RunEndings

\* schedule() at the instant now (lines 34-45), the older timeouts forgotten
ScheduleLatest(now) ==
    IF ScheduleReturnsEarly(stopped)
    THEN UNCHANGED << timers, timer >>
    ELSE /\ timers' = SetTimeout(<< >>, MsUntilNextMadridHourMinute(
                                            SchedulerDay, now, SchedulerMinute),
                                 now)
         /\ timer' = 1

\* what the callback does once run() has ended as how (lines 41-43)
AfterRun(how, fired) ==
    IF Rearms(how) THEN \E now \in SchedulerNows : ScheduleLatest(now)
    ELSE timers' = fired /\ timer' = timer

Escapes(how) == IF how \in { "throws", "rejected" } THEN 1 ELSE 0

\* the pending timeout fires (lines 37-40): run() is called unless stopped
LatestFires ==
    /\ PendingTimers # {}
    /\ IF stopped
       THEN /\ timers' = MarkFired(timers, 1)
            /\ UNCHANGED << timer, runs, tally >>
       ELSE \E threw \in BOOLEAN :
               /\ tally' = [tally EXCEPT
                               !.started = (@ + 1) % RunWrap,
                               !.escaped = IF threw THEN 1 ELSE @]
               /\ IF threw
                  THEN /\ AfterRun("throws", MarkFired(timers, 1))
                       /\ UNCHANGED runs
                  ELSE /\ timers' = MarkFired(timers, 1)
                       /\ runs' = [runs EXCEPT !.scheduler = @ + 1]
                       /\ UNCHANGED timer
    /\ UNCHANGED << call, stopped, wall, begun, tasks >>
    /\ UNCHANGED logVars
    /\ UNCHANGED runnerVars

\* the promise of run() settles (lines 40-43)
LatestSettles ==
    /\ runs.scheduler > 0
    /\ \E how \in { "resolved", "rejected" } :
          /\ runs' = [runs EXCEPT !.scheduler = @ - 1]
          /\ AfterRun(how, timers)
          /\ tally' = [tally EXCEPT !.escaped = Max(@, Escapes(how))]
    /\ UNCHANGED << call, stopped, wall, begun, tasks >>
    /\ UNCHANGED logVars
    /\ UNCHANGED runnerVars

NextForever ==
    \/ LatestFires
    \/ LatestSettles
    \/ Stop

\* a timeout that is pending fires, and a call of run() ends
SpecForever ==
    /\ InitTimer
    /\ [][NextForever]_vars
    /\ WF_vars(LatestFires)
    /\ WF_vars(LatestSettles)

\* run() is called
RunInvoked == tally'.started # tally.started

-----------------------------------------------------------------------------
(* infra/notification-log.ts.  Instants (atIso, windowStartIso, windowEndIso)
   are small numbers; an ISO text that Date.parse cannot read is << >>. *)

MAX_ENTRIES == 5000

MaxRecords == 3
MaxLogTime == 4

\* makeKey(e)
MakeKey(e) == << e.chatId, e.alertId, e.windowStartIso, e.windowEndIso >>

\* (nothing is removed)
PruneExpiredKeepsAll(entries, nowMs) == entries
\* pruneExpired(entries, nowMs)
PruneExpired(entries, nowMs) ==
    LET Live(entry) == entry.windowEndIso # << >> /\ entry.windowEndIso[1] > nowMs
    IN  SelectSeq(entries, Live)

\* entries.slice(-MAX_ENTRIES), as writeEntries stores them
WriteEntries(entries) ==
    IF Len(entries) <= MAX_ENTRIES THEN entries
    ELSE SubSeq(entries, Len(entries) - MAX_ENTRIES + 1, Len(entries))

\* entries.find((entry) => entry.key === key): the position of the first
\* such entry, 0 if there is none
FindKey(entries, key) ==
    IF \E i \in DOMAIN entries : entries[i].key = key
    THEN CHOOSE i \in DOMAIN entries :
             /\ entries[i].key = key
             /\ \A j \in 1 .. i - 1 : entries[j].key # key
    ELSE 0

\* the entry pushed for an event that has none
NewEntry(event, sentCount, lastSentAt) ==
    [key |-> MakeKey(event), chatId |-> event.chatId,
     alertId |-> event.alertId,
     windowStartIso |-> event.windowStartIso,
     windowEndIso |-> event.windowEndIso,
     firstDiscoveredAt |-> event.atIso, lastMatchedAt |-> event.atIso,
     matches |-> 1, sentCount |-> sentCount, lastSentAt |-> lastSentAt]

\* recordNotificationMatch(event) on the stored entries: what it writes
LogMatch(stored, event) ==
    LET entries == PruneExpired(stored, event.atIso)
        at == FindKey(entries, MakeKey(event))
    IN  WriteEntries(
            IF at # 0
            THEN [entries EXCEPT ![at].lastMatchedAt = event.atIso,
                                 ![at].matches = @ + 1]
            ELSE Append(entries, NewEntry(event, 0, << >>)))

\* recordNotificationSent(event) on the stored entries: what it writes
LogSent(stored, event) ==
    LET entries == PruneExpired(stored, event.atIso)
        at == FindKey(entries, MakeKey(event))
    IN  WriteEntries(
            IF at # 0
            THEN [entries EXCEPT ![at].sentCount = @ + 1,
                                 ![at].lastSentAt = << event.atIso >>]
            ELSE Append(entries, NewEntry(event, 1, << event.atIso >>)))

\* the windows of the events: one that lasts beyond every recording time,
\* one that ends at the instant 3
LongWindow == [start |-> 2, end |-> MaxLogTime + 2]
ShortWindow == [start |-> 1, end |-> 3]

LogEvents ==
    { [chatId |-> 123, alertId |-> "a1", windowStartIso |-> w.start,
       windowEndIso |-> << w.end >>, atIso |-> at] :
        w \in { LongWindow, ShortWindow }, at \in 1 .. MaxLogTime }

\* an entry left in the file by an earlier process
OldEntry(end) ==
    [key |-> << 1, "old-alert", 0, end >>, chatId |-> 1, alertId |-> "old-alert",
     windowStartIso |-> 0, windowEndIso |-> end,
     firstDiscoveredAt |-> 0, lastMatchedAt |-> 0,
     matches |-> 4, sentCount |-> 1, lastSentAt |-> << 0 >>]

InitLog ==
    /\ call = NoCall
    /\ RunnerAtRest
    /\ timers = << >>
    /\ timer = 0
    /\ stopped = FALSE
    /\ runs = [startup |-> 0, scheduler |-> 0, runnow |-> 0]
    /\ tally = [started |-> 0, stops |-> 0, commands |-> 0, escaped |-> 0]
    /\ wall = 0
    /\ begun = << >>
    /\ tasks = << >>
    /\ notificationLog \in { << >>, << OldEntry(<< 2 >>) >>,
                              << OldEntry(<< >>) >>,
                              << OldEntry(<< MaxLogTime + 1 >>) >> }
    /\ recorded = << >>

LogFrame ==
    /\ UNCHANGED << call, timers, timer, stopped, runs, tally, wall, begun,
                    tasks >>
    /\ UNCHANGED runnerVars

RecordNotificationMatchCall ==
    /\ Len(recorded) < MaxRecords
    /\ \E event \in LogEvents :
          /\ notificationLog' = LogMatch(notificationLog, event)
          /\ recorded' = Append(recorded, [kind |-> "match", event |-> event])
    /\ LogFrame

RecordNotificationSentCall ==
    /\ Len(recorded) < MaxRecords
    /\ \E event \in LogEvents :
          /\ notificationLog' = LogSent(notificationLog, event)
          /\ recorded' = Append(recorded, [kind |-> "sent", event |-> event])
    /\ LogFrame

NextLog == RecordNotificationMatchCall \/ RecordNotificationSentCall

SpecLog == InitLog /\ [][NextLog]_vars

\* the key of the events of the long window, which no recording time reaches
LongKey == << 123, "a1", LongWindow.start, << LongWindow.end >> >>

\* the positions in recorded of the records of that key, of the given kinds
RecordsOf(kinds) ==
    { i \in DOMAIN recorded :
        MakeKey(recorded[i].event) = LongKey /\ recorded[i].kind \in kinds }

FirstOfSet(is) == CHOOSE i \in is : \A j \in is : i <= j
LastOfSet(is) == CHOOSE i \in is : \A j \in is : i >= j

TimeOf(i) == recorded[i].event.atIso

EntriesOf(key) == { i \in DOMAIN notificationLog : notificationLog[i].key = key }

\* the fields of the entry e that do not depend on how it was created
CountsAndTimes(e) ==
    /\ e.sentCount = Cardinality(RecordsOf({ "sent" }))
    /\ e.firstDiscoveredAt = TimeOf(FirstOfSet(RecordsOf({ "match", "sent" })))
    /\ e.lastSentAt = IF RecordsOf({ "sent" }) = {} THEN << >>
                      ELSE << TimeOf(LastOfSet(RecordsOf({ "sent" }))) >>

\* C39 as stated: after records for a key whose window has not ended, the log
\* holds one entry of that key, with matches the number of match records,
\* sentCount the number of sent records, firstDiscoveredAt the time of the
\* first record, lastMatchedAt and lastSentAt the times of the latest match
\* and sent records; and no entry whose window end is not after the time of
\* the latest record is in the log.
C39_OneEntryPerKey ==
    /\ RecordsOf({ "match", "sent" }) # {} =>
          /\ Cardinality(EntriesOf(LongKey)) = 1
          /\ \A i \in EntriesOf(LongKey) :
                /\ CountsAndTimes(notificationLog[i])
                /\ notificationLog[i].matches
                      = Cardinality(RecordsOf({ "match" }))
                /\ RecordsOf({ "match" }) # {} =>
                      notificationLog[i].lastMatchedAt
                        = TimeOf(LastOfSet(RecordsOf({ "match" })))
    /\ recorded # << >> =>
          \A i \in DOMAIN notificationLog :
              /\ notificationLog[i].windowEndIso # << >>
              /\ notificationLog[i].windowEndIso[1] > TimeOf(Len(recorded))

\* the entry of the key was created by a sent record
CreatedBySent ==
    recorded[FirstOfSet(RecordsOf({ "match", "sent" }))].kind = "sent"

\* C39: after records for a key whose window has not ended, the log holds
\* one entry of that key; sentCount is the number of sent records,
\* firstDiscoveredAt the time of the first record, lastSentAt the time of the
\* latest sent record; matches is the number of match records, plus one if
\* the first record was a sent record; lastMatchedAt is the time of the
\* latest match record, or of the first record if there is none.  No entry
\* of another key than the one just recorded stays in the log unless its
\* window ends after the time of that record.
C39_OneEntryPerLiveKey ==
    /\ RecordsOf({ "match", "sent" }) # {} =>
          /\ Cardinality(EntriesOf(LongKey)) = 1
          /\ \A i \in EntriesOf(LongKey) :
                /\ CountsAndTimes(notificationLog[i])
                /\ notificationLog[i].matches
                      = Cardinality(RecordsOf({ "match" }))
                        + (IF CreatedBySent THEN 1 ELSE 0)
                /\ notificationLog[i].lastMatchedAt
                      = IF RecordsOf({ "match" }) # {}
                        THEN TimeOf(LastOfSet(RecordsOf({ "match" })))
                        ELSE TimeOf(FirstOfSet(RecordsOf({ "match", "sent" })))
    /\ recorded # << >> =>
          \A i \in DOMAIN notificationLog :
              notificationLog[i].key # MakeKey(recorded[Len(recorded)].event)
              => /\ notificationLog[i].windowEndIso # << >>
                 /\ notificationLog[i].windowEndIso[1] > TimeOf(Len(recorded))

\* a match, a sent and a match record of the key at the instants 1, 2 and 4:
\* the log holds its entry and nothing else
C39_Witness ==
    /\ Len(recorded) = 3
    /\ RecordsOf({ "match" }) = { 1, 3 }
    /\ RecordsOf({ "sent" }) = { 2 }
    /\ TimeOf(1) = 1 /\ TimeOf(2) = 2 /\ TimeOf(3) = 4
    /\ Len(notificationLog) = 1
    /\ notificationLog[1].matches = 2
    /\ notificationLog[1].sentCount = 1
    /\ notificationLog[1].firstDiscoveredAt = 1
    /\ notificationLog[1].lastMatchedAt = 4

=============================================================================
